---- MODULE Spec2Model ----
(***************************************************************************)
(* ai_sprint coordination plane: the task table, the event queue and the   *)
(* worker roles that drive a task through the pipeline                     *)
(* (src/ai_sprint/services/state_manager.py, src/ai_sprint/core/*.py,      *)
(* src/ai_sprint/services/health_monitor.py).                              *)
(*                                                                         *)
(* Every committed write (conn.commit()) is one step.  A handler that      *)
(* reads, runs external tools and then writes is split at the commit       *)
(* barriers, so other processes interleave between its read and its write. *)
(*                                                                         *)
(* Three specifications run the task pipeline and the queue:                               *)
(*   Spec       the worker processes (Developer, CAB, Tester, Refinery,    *)
(*              Supervisor with its Health Monitor) running concurrently;  *)
(*   SpecStore  the task operations of the state store called directly,    *)
(*              in any order and with any arguments;                       *)
(*   SpecQueue  the event-queue operations called directly.                *)
(* Two more run the convoy and feature operations one call at a time:      *)
(*   SpecConvoy creation, allocation, the block and unblock sweeps and the *)
(*              completion checks;                                         *)
(*   SpecFiles  creation and the file-list operations.                     *)
(* SpecRace runs allocate_next_convoy in two agents at once, split at its  *)
(* statements (it opens no transaction).                                   *)
(* SpecHealth runs the Developers with the process host, the session table *)
(* and the Supervisor's crash sweep and restarts; SpecHeartbeat adds that   *)
(* every running worker keeps sending heartbeats (weak fairness).          *)
(* SpecRefinery adds the Refinery's merge queue (merge_task_ff) to Spec.    *)
(* SpecWorkers runs the event loops of the Developers, the Tester and the   *)
(* Librarian, each kept running (weak fairness), beside the Developer and   *)
(* CAB steps that publish their events.                                    *)
(* SpecRecover calls recover_state over every small tasks table.            *)
(* SpecGates calls the QualityGateRunner directly                          *)
(* (src/ai_sprint/services/quality_gates.py).                              *)
(* SpecPoll runs the Supervisor's feature poll (_poll_features) beside the *)
(* `start` command registering features.                                   *)
(* SpecSweeps runs one Supervisor through the three sweeps of its health   *)
(* tick (crashed, hung, stuck) with a clock, beside the workers'           *)
(* heartbeats.                                                             *)
(* SpecClaim runs claim_next_task(convoy_id) beside convoy creation,       *)
(* allocation and the block sweep.                                         *)
(***************************************************************************)
EXTENDS Integers, Sequences, FiniteSets, TLC

NULL == "NULL"          \* SQL NULL / Python None
SET  == "set"           \* a timestamp column that holds some instant

\* ---------------------------------------------------------------- bounds
MaxFail   == 3          \* the stuck sweep stops reporting a task at this failure_count
MaxCopies == 1          \* identical rows of the events table that are told apart
MaxQueue  == 2          \* events published under SpecQueue
MaxClock  == 1          \* last instant of the wall clock under SpecQueue
MaxLimit  == 2          \* largest limit passed to consume_events under SpecQueue
MaxBeat   == 1          \* heartbeat instants of a session that are told apart
MaxStart  == 1          \* latest started_at instant of a task under SpecRecover
MaxResults == 1
MaxAge     == 2         \* results that direct run_gate calls accumulate under SpecGates

\* ------------------------------------------------------ program constants
EscalateAfter == 3      \* "if failure_count >= 3"
ConsumeLimit  == 10     \* consume_events(conn, self.agent_id, limit=10)

Devs         == {"dev-001", "dev-002"}
InitialTasks == {"T1"}               \* the tasks table's rows (nothing deletes a task)
TaskArgs     == {"T1", "T9"}         \* task ids callers may pass; T9 was never created
QueueIds     == 1..MaxQueue      \* correlation ids of the events published under SpecQueue
Statuses == {"todo", "in_progress", "in_review", "in_tests", "in_docs", "done"}
Active   == {"in_progress", "in_review", "in_tests", "in_docs"}
Features   == {"F1"}                 \* the features table's rows
ConvoyIds  == {"CA", "CB"}           \* convoy ids callers may create
Priorities == {"P1", "P2"}
Files      == {"src/a.py", "src/b.py"}

VARIABLES
    tasks,      \* tasks table: task id -> row
    events,     \* events table: a bag of rows
    now,        \* wall clock (datetime('now'), one-second resolution)
    dev,        \* each DeveloperAgent's position and locals
    cab,        \* the CABAgent's position and locals
    tester,     \* the TesterAgent's position and locals
    refinery,   \* the RefineryAgent's position and locals
    manager,    \* the ManagerAgent's position in _check_agent_health
    call,       \* the last store operation called directly, with its result
    epoch,      \* history: claim calls on each task since its last return to todo
    rejected,   \* history: completed rejections of each task (saturating)
    delivered,  \* history: how often consume_events returned each event
    features,   \* features table: feature id -> status
    convoys,    \* convoys table: convoy id -> row
    alloc,      \* each agent's position in allocate_next_convoy
    cvhist,     \* history: allocations and unblockings of each convoy
    sessions,   \* agent_sessions table: agent id -> row
    host,       \* process host: names of the live tmux sessions
    hm,         \* the Supervisor's position in the crash sweep and restarts
    results,    \* QualityGateRunner.results: the recorded gate results
    poll,       \* the Supervisor's position and locals in _poll_features
    sweep       \* the Supervisor's position and locals in _check_agent_health

convoyVars == <<features, convoys, alloc, cvhist>>

sessionVars == <<sessions, host, hm>>

gateVars == <<results>>

supVars == <<poll, sweep>>

vars == <<tasks, events, now, dev, cab, tester, refinery, manager, call,
          epoch, rejected, delivered, convoyVars, sessionVars, gateVars, supVars>>

\* ------------------------------------------------------------ tasks table

\* SCHEMA_SQL, tasks: the columns the coordination plane reads or writes.
NewTask ==
    [status |-> "todo", assignee |-> NULL, started_at |-> NULL,
     completed_at |-> NULL, failure_count |-> 0, failure_reason |-> NULL,
     validation_results |-> NULL]

\* Mutant of ClaimCheck: the claim forgets that in_progress is already taken.
ClaimCheckLoose(row) ==
    row.status \in {"todo", "in_progress"}

\* claim_task_atomic: "if row["status"] == "todo" and row["assignee"] is None"
ClaimCheck(row) ==
    row.status = "todo" /\ row.assignee = NULL

\* claim_task_atomic's result: the row exists and passes the check.
ClaimOk(ts, t) ==
    t \in DOMAIN ts /\ ClaimCheck(ts[t])

\* claim_task_atomic's write, inside BEGIN IMMEDIATE ... commit.
ClaimTaskAtomic(ts, t, a) ==
    IF ClaimOk(ts, t)
    THEN [ts EXCEPT ![t] = [@ EXCEPT !.status = "in_progress",
                                     !.assignee = a,
                                     !.started_at = SET]]
    ELSE ts

\* update_task_status: an unconditional UPDATE ... WHERE id = ?; it stamps
\* started_at on in_progress and completed_at on done, and writes the assignee
\* only when one is given.  No row: the UPDATE changes nothing.
UpdateTaskStatus(ts, t, status, assignee) ==
    IF t \notin DOMAIN ts THEN ts
    ELSE [ts EXCEPT ![t] =
            [@ EXCEPT !.status = status,
                      !.assignee = IF assignee # NULL THEN assignee ELSE @,
                      !.started_at = IF status = "in_progress" THEN SET ELSE @,
                      !.completed_at = IF status = "done" THEN SET ELSE @]]

\* update_task_validation_results
UpdateTaskValidationResults(ts, t) ==
    IF t \notin DOMAIN ts THEN ts
    ELSE [ts EXCEPT ![t].validation_results = SET]

\* increment_task_failure_count: the UPDATE.
IncrementTaskFailureCount(ts, t, reason) ==
    IF t \notin DOMAIN ts THEN ts
    ELSE [ts EXCEPT ![t] = [@ EXCEPT !.failure_count = @ + 1,
                                     !.failure_reason = reason]]

\* increment_task_failure_count: the value read back, 0 when the row is absent.
FailureCountOf(ts, t) ==
    IF t \in DOMAIN ts THEN ts[t].failure_count ELSE 0

\* Mutant of EscalateUpdate: the task returns to todo still assigned.
EscalateUpdateKeepAssignee(ts, t) ==
    IF t \notin DOMAIN ts THEN ts
    ELSE [ts EXCEPT ![t] = [@ EXCEPT !.status = "todo",
                                     !.failure_reason = "Escalated"]]

\* _handle_agent_failure: UPDATE tasks SET status = 'todo', assignee = NULL,
\* failure_reason = 'Escalated after ...'
EscalateUpdate(ts, t) ==
    IF t \notin DOMAIN ts THEN ts
    ELSE [ts EXCEPT ![t] = [@ EXCEPT !.status = "todo",
                                     !.assignee = NULL,
                                     !.failure_reason = "Escalated"]]

\* VALID_TASK_TRANSITIONS
VALID_TASK_TRANSITIONS ==
    [todo        |-> {"in_progress"},
     in_progress |-> {"in_review", "todo"},
     in_review   |-> {"in_tests", "in_progress"},
     in_tests    |-> {"in_docs", "in_progress"},
     in_docs     |-> {"done", "in_progress"},
     done        |-> {}]

\* validate_task_transition
validate_task_transition(from, to) ==
    to \in VALID_TASK_TRANSITIONS[from]

\* ----------------------------------------------------------- events table

\* The events table is a bag of rows: row -> number of copies.  A row's id is
\* a random uuid4 and no query reads it back, so rows are told apart by their
\* columns only; identical rows beyond MaxCopies are not counted.
BagAdd(ev, r) ==
    IF r \in DOMAIN ev
    THEN [ev EXCEPT ![r] = IF @ < MaxCopies THEN @ + 1 ELSE @]
    ELSE [x \in DOMAIN ev \cup {r} |-> IF x = r THEN 1 ELSE ev[x]]

BagRemove(ev, r) ==
    IF ev[r] > 1
    THEN [ev EXCEPT ![r] = @ - 1]
    ELSE [x \in DOMAIN ev \ {r} |-> ev[x]]

EmptyTable == [x \in {} |-> 0]

\* SCHEMA_SQL, events: a row as publish_event inserts it.
NewEvent(agent, type, payload) ==
    [agent_id |-> agent, event_type |-> type, payload |-> payload,
     status |-> "pending", created_at |-> now, processed_at |-> NULL]

\* publish_event: INSERT ... 'pending', created_at DEFAULT datetime('now').
PublishEvent(ev, agent, type, payload) ==
    BagAdd(ev, NewEvent(agent, type, payload))

\* ------------------------------------------------------------ history

\* wins: claim calls that returned true; callers: the agents that called;
\* first_todo: the first call of the epoch met a todo, unassigned task;
\* held: every call that returned true left the task in_progress and assigned
\* to its caller.
FreshEpoch == [wins |-> 0, callers |-> {}, first_todo |-> FALSE, held |-> TRUE]

\* A task returns to todo in this step.
Returned(t) ==
    tasks[t].status # "todo" /\ tasks'[t].status = "todo"

\* A step that makes no claim call: an epoch ends when its task returns to todo.
EpochKeep ==
    epoch' = [t \in DOMAIN tasks |->
                 IF Returned(t) THEN FreshEpoch ELSE epoch[t]]

\* A step that is a claim call on an existing task t by d with result ok
\* (the history is kept for the tasks of InitialTasks).
EpochClaim(t, d, ok) ==
    epoch' = IF t \notin DOMAIN epoch THEN epoch
             ELSE [epoch EXCEPT ![t] =
                 [wins       |-> IF ok /\ @.wins < 2 THEN @.wins + 1 ELSE @.wins,
                  callers    |-> @.callers \cup {d},
                  first_todo |-> IF @.callers = {}
                                 THEN tasks[t].status = "todo" /\ tasks[t].assignee = NULL
                                 ELSE @.first_todo,
                  held       |-> /\ @.held
                                 /\ ok => /\ tasks'[t].status = "in_progress"
                                          /\ tasks'[t].assignee = d]]

NoCall == [op |-> "none"]

Min(a, b) == IF a <= b THEN a ELSE b

IdleAgent == [pc |-> "idle", task |-> NULL]

\* An agent outside allocate_next_convoy.
IdleAlloc == [pc |-> "idle", convoy |-> NULL]

\* granted: allocate_next_convoy calls that returned the convoy;
\* unblocked: an unblock sweep set the convoy available.
FreshConvoy == [granted |-> 0, unblocked |-> FALSE]

\* The agent_sessions table without rows.
NoSessions == [a \in {} |-> NULL]

\* The Supervisor outside the crash sweep; restarted: agents it has respawned.
IdleMonitor == [pc |-> "idle", todo |-> {}, crashed |-> {}, restarted |-> {}]

\* The convoys table before any create_convoy.
NoConvoys == [c \in {} |-> NULL]

\* ------------------------------------------------------------ Developer

\* claim_next_task: list_tasks_by_convoy(conn, convoy_id, status="todo")
DevListTodo(d) ==
    /\ dev[d].pc = "idle"
    /\ LET todo == {t \in DOMAIN tasks : tasks[t].status = "todo"}
       IN  dev' = [dev EXCEPT ![d] =
                      IF todo = {} THEN @
                      ELSE [pc |-> "claim", todo |-> todo, task |-> NULL]]
    /\ UNCHANGED <<tasks, events, now, cab, tester, refinery, manager, call,
                   epoch, rejected, delivered, convoyVars, sessionVars, gateVars, supVars>>

\* claim_next_task: one pass of "for task in tasks: if claim_task_atomic(...)".
DevClaim(d) ==
    /\ dev[d].pc = "claim"
    /\ \E t \in dev[d].todo :
          LET ok == ClaimOk(tasks, t)
          IN  /\ tasks' = ClaimTaskAtomic(tasks, t, d)
              /\ EpochClaim(t, d, ok)
              /\ dev' = [dev EXCEPT ![d] =
                            IF ok
                            THEN [pc |-> "implement", todo |-> {}, task |-> t]
                            ELSE IF dev[d].todo = {t}
                                 THEN [pc |-> "idle", todo |-> {}, task |-> NULL]
                                 ELSE [@ EXCEPT !.todo = @ \ {t}]]
    /\ UNCHANGED <<events, now, cab, tester, refinery, manager, call,
                   rejected, delivered, convoyVars, sessionVars, gateVars, supVars>>

\* implement_task: get_task, then update_task_status(conn, task_id, "in_review").
DevImplement(d) ==
    /\ dev[d].pc = "implement"
    /\ tasks' = UpdateTaskStatus(tasks, dev[d].task, "in_review", NULL)
    /\ dev' = [dev EXCEPT ![d].pc = "publish"]
    /\ EpochKeep
    /\ UNCHANGED <<events, now, cab, tester, refinery, manager, call,
                   rejected, delivered, convoyVars, sessionVars, gateVars, supVars>>

\* implement_task: publish_event(conn, agent_id="cab", event_type="ROUTE_TASK").
DevPublish(d) ==
    /\ dev[d].pc = "publish"
    /\ events' = PublishEvent(events, "cab", "ROUTE_TASK",
                              [task_id |-> dev[d].task])
    /\ dev' = [dev EXCEPT ![d] = [pc |-> "idle", todo |-> {}, task |-> NULL]]
    /\ UNCHANGED <<tasks, now, cab, tester, refinery, manager, call,
                   epoch, rejected, delivered, convoyVars, sessionVars, gateVars, supVars>>

\* recover_state: the task assigned to this agent in an active status.
DevRecover(d) ==
    /\ dev[d].pc = "idle"
    /\ \E t \in DOMAIN tasks :
          /\ tasks[t].assignee = d
          /\ tasks[t].status \in Active
          /\ dev' = [dev EXCEPT ![d] = [pc |-> "resume", todo |-> {}, task |-> t]]
    /\ UNCHANGED <<tasks, events, now, cab, tester, refinery, manager, call,
                   epoch, rejected, delivered, convoyVars, sessionVars, gateVars, supVars>>

\* resume_work: get_task; in_progress continues with implement_task, the
\* other statuses wait.
DevResume(d) ==
    /\ dev[d].pc = "resume"
    /\ dev' = [dev EXCEPT ![d] =
                  IF tasks[dev[d].task].status = "in_progress"
                  THEN [@ EXCEPT !.pc = "implement"]
                  ELSE [pc |-> "idle", todo |-> {}, task |-> NULL]]
    /\ UNCHANGED <<tasks, events, now, cab, tester, refinery, manager, call,
                   epoch, rejected, delivered, convoyVars, sessionVars, gateVars, supVars>>

\* ------------------------------------------------------------------ CAB

\* review_task: get_task and the status check, before the gates run.
CabReview(t) ==
    /\ cab.pc = "idle"
    /\ cab' = IF t \in DOMAIN tasks /\ tasks[t].status = "in_review"
              THEN [pc |-> "gates", task |-> t]
              ELSE cab
    /\ UNCHANGED <<tasks, events, now, dev, tester, refinery, manager, call,
                   epoch, rejected, delivered, convoyVars, sessionVars, gateVars, supVars>>

\* review_task, all_gates_passed(): update_task_status(conn, task_id, "in_tests").
CabApprove ==
    /\ cab.pc = "gates"
    /\ tasks' = UpdateTaskStatus(tasks, cab.task, "in_tests", NULL)
    /\ cab' = [cab EXCEPT !.pc = "approved"]
    /\ EpochKeep
    /\ UNCHANGED <<events, now, dev, tester, refinery, manager, call,
                   rejected, delivered, convoyVars, sessionVars, gateVars, supVars>>

\* review_task: publish_event(conn, agent_id="tester", event_type="RUN_TESTS").
CabPublishRunTests ==
    /\ cab.pc = "approved"
    /\ events' = PublishEvent(events, "tester", "RUN_TESTS", [task_id |-> cab.task])
    /\ cab' = IdleAgent
    /\ UNCHANGED <<tasks, now, dev, tester, refinery, manager, call,
                   epoch, rejected, delivered, convoyVars, sessionVars, gateVars, supVars>>

\* CABAgent.reject_task: update_task_status(conn, task_id, "in_progress").
CabReject ==
    /\ cab.pc = "gates"
    /\ tasks' = UpdateTaskStatus(tasks, cab.task, "in_progress", NULL)
    /\ cab' = [cab EXCEPT !.pc = "rejected"]
    /\ EpochKeep
    /\ UNCHANGED <<events, now, dev, tester, refinery, manager, call,
                   rejected, delivered, convoyVars, sessionVars, gateVars, supVars>>

\* CABAgent.reject_task: publish_event(conn, agent_id="developer",
\* event_type="REWORK_NEEDED"); the rejection is complete.
CabPublishRework ==
    /\ cab.pc = "rejected"
    /\ events' = PublishEvent(events, "developer", "REWORK_NEEDED",
                              [task_id |-> cab.task])
    /\ rejected' = [rejected EXCEPT ![cab.task] =
                       IF @ < EscalateAfter THEN @ + 1 ELSE @]
    /\ cab' = IdleAgent
    /\ UNCHANGED <<tasks, now, dev, tester, refinery, manager, call,
                   epoch, delivered, convoyVars, sessionVars, gateVars, supVars>>

\* --------------------------------------------------------------- Tester

\* validate_task: get_task and the status check, before the gates run.
TesterValidate(t) ==
    /\ tester.pc = "idle"
    /\ tester' = IF t \in DOMAIN tasks /\ tasks[t].status = "in_tests"
                 THEN [pc |-> "gates", task |-> t]
                 ELSE tester
    /\ UNCHANGED <<tasks, events, now, dev, cab, refinery, manager, call,
                   epoch, rejected, delivered, convoyVars, sessionVars, gateVars, supVars>>

\* validate_task, all_gates_passed(): update_task_validation_results.
TesterStoreResults ==
    /\ tester.pc = "gates"
    /\ tasks' = UpdateTaskValidationResults(tasks, tester.task)
    /\ tester' = [tester EXCEPT !.pc = "validated"]
    /\ EpochKeep
    /\ UNCHANGED <<events, now, dev, cab, refinery, manager, call,
                   rejected, delivered, convoyVars, sessionVars, gateVars, supVars>>

\* validate_task: update_task_status(conn, task_id, "in_docs").
TesterApprove ==
    /\ tester.pc = "validated"
    /\ tasks' = UpdateTaskStatus(tasks, tester.task, "in_docs", NULL)
    /\ tester' = [tester EXCEPT !.pc = "approved"]
    /\ EpochKeep
    /\ UNCHANGED <<events, now, dev, cab, refinery, manager, call,
                   rejected, delivered, convoyVars, sessionVars, gateVars, supVars>>

\* validate_task: publish_event(conn, agent_id="refinery", event_type="SECURITY_SCAN").
TesterPublishScan ==
    /\ tester.pc = "approved"
    /\ events' = PublishEvent(events, "refinery", "SECURITY_SCAN",
                              [task_id |-> tester.task])
    /\ tester' = IdleAgent
    /\ UNCHANGED <<tasks, now, dev, cab, refinery, manager, call,
                   epoch, rejected, delivered, convoyVars, sessionVars, gateVars, supVars>>

\* reject_validation: update_task_status(conn, task_id, "in_progress").
TesterReject ==
    /\ tester.pc = "gates"
    /\ tasks' = UpdateTaskStatus(tasks, tester.task, "in_progress", NULL)
    /\ tester' = [tester EXCEPT !.pc = "rejected"]
    /\ EpochKeep
    /\ UNCHANGED <<events, now, dev, cab, refinery, manager, call,
                   rejected, delivered, convoyVars, sessionVars, gateVars, supVars>>

\* reject_validation: publish_event(conn, agent_id="developer",
\* event_type="REWORK_NEEDED"); the rejection is complete.
TesterPublishRework ==
    /\ tester.pc = "rejected"
    /\ events' = PublishEvent(events, "developer", "REWORK_NEEDED",
                              [task_id |-> tester.task])
    /\ rejected' = [rejected EXCEPT ![tester.task] =
                       IF @ < EscalateAfter THEN @ + 1 ELSE @]
    /\ tester' = IdleAgent
    /\ UNCHANGED <<tasks, now, dev, cab, refinery, manager, call,
                   epoch, delivered, convoyVars, sessionVars, gateVars, supVars>>

\* ------------------------------------------------------------- Refinery

\* merge_task: get_task and the status check, before the gates run.
RefineryMerge(t) ==
    /\ refinery.pc = "idle"
    /\ refinery' = IF t \in DOMAIN tasks /\ tasks[t].status = "in_docs"
                   THEN [pc |-> "gates", task |-> t]
                   ELSE refinery
    /\ UNCHANGED <<tasks, events, now, dev, cab, tester, manager, call,
                   epoch, rejected, delivered, convoyVars, sessionVars, gateVars, supVars>>

\* merge_task, all_gates_passed(): update_task_status(conn, task_id, "done").
RefineryDone ==
    /\ refinery.pc = "gates"
    /\ tasks' = UpdateTaskStatus(tasks, refinery.task, "done", NULL)
    /\ refinery' = [refinery EXCEPT !.pc = "merged"]
    /\ EpochKeep
    /\ UNCHANGED <<events, now, dev, cab, tester, manager, call,
                   rejected, delivered, convoyVars, sessionVars, gateVars, supVars>>

\* merge_task: publish_event(conn, agent_id="manager", event_type="MERGE_TASK").
RefineryPublishMerge ==
    /\ refinery.pc = "merged"
    /\ events' = PublishEvent(events, "manager", "MERGE_TASK",
                              [task_id |-> refinery.task])
    /\ refinery' = IdleAgent
    /\ UNCHANGED <<tasks, now, dev, cab, tester, manager, call,
                   epoch, rejected, delivered, convoyVars, sessionVars, gateVars, supVars>>

\* reject_merge: update_task_status(conn, task_id, "in_progress").
RefineryReject ==
    /\ refinery.pc = "gates"
    /\ tasks' = UpdateTaskStatus(tasks, refinery.task, "in_progress", NULL)
    /\ refinery' = [refinery EXCEPT !.pc = "rejected"]
    /\ EpochKeep
    /\ UNCHANGED <<events, now, dev, cab, tester, manager, call,
                   rejected, delivered, convoyVars, sessionVars, gateVars, supVars>>

\* reject_merge: publish_event(conn, agent_id="developer",
\* event_type="REWORK_NEEDED"); the rejection is complete.
RefineryPublishRework ==
    /\ refinery.pc = "rejected"
    /\ events' = PublishEvent(events, "developer", "REWORK_NEEDED",
                              [task_id |-> refinery.task])
    /\ rejected' = [rejected EXCEPT ![refinery.task] =
                       IF @ < EscalateAfter THEN @ + 1 ELSE @]
    /\ refinery' = IdleAgent
    /\ UNCHANGED <<tasks, now, dev, cab, tester, manager, call,
                   epoch, delivered, convoyVars, sessionVars, gateVars, supVars>>

\* ----------------------------------------- Supervisor and Health Monitor

\* The Supervisor between two health ticks; todo and failed hold rows
\* (agent_id, task_id) of the running sweep.
IdleSweep == [pc |-> "idle", todo |-> {}, failed |-> {}]

\* The Supervisor between two polls.
IdlePoll == [pc |-> "idle", ready |-> {}, todo |-> {}, feature |-> NULL]

IdleManager == [pc |-> "idle", stuck |-> {}, task |-> NULL, failure_count |-> 0]

\* check_stuck_tasks' query: tasks in an active status whose started_at is
\* older than task_max_duration.  The clock is not modelled here: any task
\* with a started_at may have become that old.
LongTasks ==
    {t \in DOMAIN tasks : tasks[t].status \in Active /\ tasks[t].started_at # NULL}

\* _check_agent_health: stuck_tasks = check_stuck_tasks(), the rows read in
\* one SELECT.
MgrCheckStuck ==
    /\ manager.pc = "idle"
    /\ \E S \in SUBSET LongTasks :
          /\ S # {}
          /\ \A t \in S : tasks[t].failure_count < MaxFail
          /\ manager' = [IdleManager EXCEPT !.pc = "handle", !.stuck = S]
    /\ UNCHANGED <<tasks, events, now, dev, cab, tester, refinery, call,
                   epoch, rejected, delivered, convoyVars, sessionVars, gateVars, supVars>>

\* _handle_agent_failure(agent_id, "stuck", task_id):
\* increment_task_failure_count and its read-back; below the threshold the
\* agent is restarted, which writes no task.
MgrIncrement ==
    /\ manager.pc = "handle"
    /\ \E t \in manager.stuck :
          LET ts == IncrementTaskFailureCount(tasks, t, "Agent stuck")
              n  == FailureCountOf(ts, t)
              rest == manager.stuck \ {t}
          IN  /\ tasks' = ts
              /\ manager' =
                    IF n >= EscalateAfter
                    THEN [pc |-> "escalate", stuck |-> rest, task |-> t,
                          failure_count |-> n]
                    ELSE IF rest = {} THEN IdleManager
                    ELSE [manager EXCEPT !.stuck = rest]
    /\ EpochKeep
    /\ UNCHANGED <<events, now, dev, cab, tester, refinery, call,
                   rejected, delivered, convoyVars, sessionVars, gateVars, supVars>>

\* _handle_agent_failure: publish_event(conn, agent_id="architect",
\* event_type="ESCALATE_TASK").
MgrPublishEscalate ==
    /\ manager.pc = "escalate"
    /\ events' = PublishEvent(events, "architect", "ESCALATE_TASK",
                              [task_id |-> manager.task,
                               failure_count |-> manager.failure_count])
    /\ manager' = [manager EXCEPT !.pc = "unassign"]
    /\ UNCHANGED <<tasks, now, dev, cab, tester, refinery, call,
                   epoch, rejected, delivered, convoyVars, sessionVars, gateVars, supVars>>

\* _handle_agent_failure: the UPDATE that returns the task to todo.
MgrUnassign ==
    /\ manager.pc = "unassign"
    /\ tasks' = EscalateUpdate(tasks, manager.task)
    /\ manager' = IF manager.stuck = {} THEN IdleManager
                  ELSE [IdleManager EXCEPT !.pc = "handle", !.stuck = manager.stuck]
    /\ EpochKeep
    /\ UNCHANGED <<events, now, dev, cab, tester, refinery, call,
                   rejected, delivered, convoyVars, sessionVars, gateVars, supVars>>

\* ------------------------------------------------------- convoys, features

\* tasks.convoy_id: the convoy each task id is created under (the column is
\* written by create_task only).
ConvoyOf == [t \in {"T1", "T2"} |-> IF t = "T1" THEN "CA" ELSE "CB"]

\* Task ids of the calls made under SpecConvoy and SpecRace.
ConvoyTasks == {"T1", "T2"}

\* Python's order on the priority strings "P1" < "P2" < "P3".
PriorityRank(p) == CASE p = "P1" -> 1 [] p = "P2" -> 2 [] OTHER -> 3

\* SCHEMA_SQL, convoys: a row as create_convoy inserts it.
NewConvoy(f, priority, files, deps) ==
    [feature_id |-> f, priority |-> priority, status |-> "available",
     files |-> files, dependencies |-> deps, assignee |-> NULL,
     created_at |-> now]

\* create_convoy: INSERT INTO convoys; no other row is read.
CreateConvoy(cv, c, f, priority, files, deps) ==
    [x \in DOMAIN cv \cup {c} |->
        IF x = c THEN NewConvoy(f, priority, files, deps) ELSE cv[x]]

\* update_convoy_status: UPDATE convoys SET status = ?, assignee = ? WHERE id = ?
UpdateConvoyStatus(cv, c, status, assignee) ==
    IF c \in DOMAIN cv
    THEN [cv EXCEPT ![c] = [@ EXCEPT !.status = status, !.assignee = assignee]]
    ELSE cv

\* update_convoy_files: UPDATE convoys SET files = ? WHERE id = ?
UpdateConvoyFiles(cv, c, files) ==
    IF c \in DOMAIN cv THEN [cv EXCEPT ![c] = [@ EXCEPT !.files = files]] ELSE cv

\* get_convoy_files: [] for a missing convoy.
GetConvoyFiles(cv, c) == IF c \in DOMAIN cv THEN cv[c].files ELSE {}

\* add_file_to_convoy: append and update when the file is not yet listed.
AddFileToConvoy(cv, c, file) ==
    IF file \in GetConvoyFiles(cv, c) THEN cv
    ELSE UpdateConvoyFiles(cv, c, GetConvoyFiles(cv, c) \cup {file})

\* list_convoys_by_feature(conn, feature_id, status); status NULL lists all.
ListConvoysByFeature(cv, f, status) ==
    {c \in DOMAIN cv :
        cv[c].feature_id = f /\ (status = NULL \/ cv[c].status = status)}

\* Mutant of CheckConvoyDependenciesMet: a dependency only has to exist.
CheckConvoyDependenciesExist(cv, c) ==
    /\ c \in DOMAIN cv
    /\ \A d \in cv[c].dependencies : d \in DOMAIN cv

\* check_convoy_dependencies_met
CheckConvoyDependenciesMet(cv, c) ==
    /\ c \in DOMAIN cv
    /\ \A d \in cv[c].dependencies : d \in DOMAIN cv /\ cv[d].status = "done"

\* The sort key (priority, created_at) of allocate_next_convoy, as Python
\* compares the tuples.
KeyLeq(r1, r2) ==
    \/ PriorityRank(r1.priority) < PriorityRank(r2.priority)
    \/ r1.priority = r2.priority /\ r1.created_at <= r2.created_at

\* Mutant of FirstCandidates: the sort looks at created_at only.
FirstCandidatesByAge(cv, f) ==
    LET avail == ListConvoysByFeature(cv, f, "available")
    IN  {c \in avail : \A o \in avail : cv[c].created_at <= cv[o].created_at}

\* allocate_next_convoy: sorted(convoys, key=(priority, created_at))[0].  The
\* sort is stable over a list that SQL ordered by priority only, so among
\* rows with equal keys any may come first.
FirstCandidates(cv, f) ==
    LET avail == ListConvoysByFeature(cv, f, "available")
    IN  {c \in avail : \A o \in avail : KeyLeq(cv[c], cv[o])}

RECURSIVE BlockLoop(_, _)
\* update_blocked_convoys_status: the loop over the listed convoys.
BlockLoop(cv, todo) ==
    IF todo = {} THEN cv
    ELSE LET c == CHOOSE x \in todo : TRUE
         IN  BlockLoop(IF ~CheckConvoyDependenciesMet(cv, c)
                       THEN UpdateConvoyStatus(cv, c, "blocked", NULL)
                       ELSE cv,
                       todo \ {c})

\* update_blocked_convoys_status(conn, feature_id)
UpdateBlockedConvoysStatus(cv, f) ==
    BlockLoop(cv, ListConvoysByFeature(cv, f, "available"))

RECURSIVE UnblockLoop(_, _)
\* unblock_dependent_convoys: the loop over the blocked convoys.
UnblockLoop(cv, todo) ==
    IF todo = {} THEN cv
    ELSE LET c == CHOOSE x \in todo : TRUE
         IN  UnblockLoop(IF CheckConvoyDependenciesMet(cv, c)
                         THEN UpdateConvoyStatus(cv, c, "available", NULL)
                         ELSE cv,
                         todo \ {c})

\* unblock_dependent_convoys(conn, completed_convoy_id)
UnblockDependentConvoys(cv, completed) ==
    IF completed \notin DOMAIN cv THEN cv
    ELSE UnblockLoop(cv, ListConvoysByFeature(cv, cv[completed].feature_id,
                                              "blocked"))

\* list_tasks_by_convoy(conn, convoy_id)
ListTasksByConvoy(ts, c) == {t \in DOMAIN ts : ConvoyOf[t] = c}

\* check_convoy_completion: True when the convoy has tasks and all are done.
ConvoyComplete(ts, c) ==
    /\ ListTasksByConvoy(ts, c) # {}
    /\ \A t \in ListTasksByConvoy(ts, c) : ts[t].status = "done"

\* check_convoy_completion(conn, convoy_id): the convoys table afterwards.
CheckConvoyCompletion(ts, cv, c) ==
    IF ConvoyComplete(ts, c) THEN UpdateConvoyStatus(cv, c, "done", NULL) ELSE cv

\* check_feature_completion: True when the feature has convoys and all are done.
FeatureComplete(cv, f) ==
    /\ ListConvoysByFeature(cv, f, NULL) # {}
    /\ \A c \in ListConvoysByFeature(cv, f, NULL) : cv[c].status = "done"

\* update_feature_status: UPDATE features SET status = ? WHERE id = ?
UpdateFeatureStatus(fs, f, status) ==
    IF f \in DOMAIN fs THEN [fs EXCEPT ![f] = status] ELSE fs

\* check_feature_completion(conn, feature_id): the features table afterwards.
CheckFeatureCompletion(cv, fs, f) ==
    IF FeatureComplete(cv, f) THEN UpdateFeatureStatus(fs, f, "done") ELSE fs

\* cleanup_feature(conn, feature_id): the features table afterwards.
CleanupFeature(fs, f) ==
    IF f \in DOMAIN fs /\ fs[f] # "done"
    THEN UpdateFeatureStatus(fs, f, "done") ELSE fs

Init ==
    /\ tasks = [t \in InitialTasks |-> NewTask]
    /\ events = EmptyTable
    /\ now = 0
    /\ dev = [d \in Devs |-> [pc |-> "idle", todo |-> {}, task |-> NULL]]
    /\ cab = IdleAgent
    /\ tester = IdleAgent
    /\ refinery = IdleAgent
    /\ manager = IdleManager
    /\ call = NoCall
    /\ epoch = [t \in InitialTasks |-> FreshEpoch]
    /\ rejected = [t \in InitialTasks |-> 0]
    /\ delivered = [s \in QueueIds |-> 0]
    /\ features = [f \in Features |-> "in_progress"]
    /\ convoys = NoConvoys
    /\ alloc = [a \in Devs |-> IdleAlloc]
    /\ cvhist = [c \in ConvoyIds |-> FreshConvoy]
    /\ sessions = NoSessions
    /\ host = {}
    /\ hm = IdleMonitor
    /\ results = <<>>
    /\ poll = IdlePoll
    /\ sweep = IdleSweep

Next ==
    \/ \E d \in Devs : DevListTodo(d)
    \/ \E d \in Devs : DevClaim(d)
    \/ \E d \in Devs : DevImplement(d)
    \/ \E d \in Devs : DevPublish(d)
    \/ \E d \in Devs : DevRecover(d)
    \/ \E d \in Devs : DevResume(d)
    \/ \E t \in TaskArgs : CabReview(t)
    \/ CabApprove
    \/ CabPublishRunTests
    \/ CabReject
    \/ CabPublishRework
    \/ \E t \in TaskArgs : TesterValidate(t)
    \/ TesterStoreResults
    \/ TesterApprove
    \/ TesterPublishScan
    \/ TesterReject
    \/ TesterPublishRework
    \/ \E t \in TaskArgs : RefineryMerge(t)
    \/ RefineryDone
    \/ RefineryPublishMerge
    \/ RefineryReject
    \/ RefineryPublishRework
    \/ MgrCheckStuck
    \/ MgrIncrement
    \/ MgrPublishEscalate
    \/ MgrUnassign

Spec == Init /\ [][Next]_vars

\* ------------------------------------------- the store, called directly

\* Mutant of ClaimCall: the UPDATE runs although the check failed.
ClaimCallUnchecked(t, a) ==
    /\ tasks' = IF t \in DOMAIN tasks
                THEN [tasks EXCEPT ![t] = [@ EXCEPT !.status = "in_progress",
                                                    !.assignee = a,
                                                    !.started_at = SET]]
                ELSE tasks
    /\ call' = [op |-> "claim", task |-> t, agent |-> a, ret |-> ClaimOk(tasks, t)]

\* claim_task_atomic(conn, task_id, assignee) with its return value.
ClaimCall(t, a) ==
    /\ tasks' = ClaimTaskAtomic(tasks, t, a)
    /\ call' = [op |-> "claim", task |-> t, agent |-> a, ret |-> ClaimOk(tasks, t)]

StoreClaim(t, a) ==
    /\ ClaimCall(t, a)
    /\ IF t \in DOMAIN tasks THEN EpochClaim(t, a, ClaimOk(tasks, t)) ELSE EpochKeep
    /\ UNCHANGED <<events, now, dev, cab, tester, refinery, manager,
                   rejected, delivered, convoyVars, sessionVars, gateVars, supVars>>

\* update_task_status(conn, task_id, status, assignee)
StoreUpdateStatus(t, status, a) ==
    /\ tasks' = UpdateTaskStatus(tasks, t, status, a)
    /\ call' = [op |-> "update_task_status", task |-> t, status |-> status,
                agent |-> a]
    /\ EpochKeep
    /\ UNCHANGED <<events, now, dev, cab, tester, refinery, manager,
                   rejected, delivered, convoyVars, sessionVars, gateVars, supVars>>

\* increment_task_failure_count(conn, task_id, failure_reason)
StoreIncrement(t) ==
    /\ FailureCountOf(tasks, t) < MaxFail
    /\ tasks' = IncrementTaskFailureCount(tasks, t, "rejected")
    /\ call' = [op |-> "increment_task_failure_count", task |-> t,
                ret |-> FailureCountOf(tasks', t)]
    /\ EpochKeep
    /\ UNCHANGED <<events, now, dev, cab, tester, refinery, manager,
                   rejected, delivered, convoyVars, sessionVars, gateVars, supVars>>

\* Status arguments callers may pass; "bogus" is no status.
TransitionArgs == Statuses \cup {"bogus"}

\* Mutant of TransitionOk: a transition to the current status is let through.
TransitionOkOrSame(ts, t, to) ==
    t \in DOMAIN ts /\ (validate_task_transition(ts[t].status, to) \/ ts[t].status = to)

\* transition_task_status's result: the task exists and
\* validate_task_transition(from_status, to_status) holds.
TransitionOk(ts, t, to) ==
    t \in DOMAIN ts /\ validate_task_transition(ts[t].status, to)

\* transition_task_status: update_task_status(conn, task_id, to_status) when
\* the transition is valid, nothing otherwise.
TransitionTaskStatus(ts, t, to) ==
    IF TransitionOk(ts, t, to) THEN UpdateTaskStatus(ts, t, to, NULL) ELSE ts

\* transition_task_status(conn, task_id, to_status) with its return value.
StoreTransition(t, to) ==
    /\ tasks' = TransitionTaskStatus(tasks, t, to)
    /\ call' = [op |-> "transition", task |-> t, to |-> to,
                ret |-> TransitionOk(tasks, t, to)]
    /\ EpochKeep
    /\ UNCHANGED <<events, now, dev, cab, tester, refinery, manager,
                   rejected, delivered, convoyVars, sessionVars, gateVars, supVars>>

\* reject_task: increment_task_failure_count, then transition_task_status to
\* in_progress with its result ignored; an absent task returns at once.
RejectTaskTasks(ts, t, reason) ==
    IF t \notin DOMAIN ts THEN ts
    ELSE TransitionTaskStatus(IncrementTaskFailureCount(ts, t, reason),
                              t, "in_progress")

\* reject_task: "if failure_count >= 3" publish ESCALATE_TASK to "manager".
RejectTaskEvents(ev, ts, t, reason) ==
    IF t \in DOMAIN ts
       /\ FailureCountOf(IncrementTaskFailureCount(ts, t, reason), t) >= EscalateAfter
    THEN PublishEvent(ev, "manager", "ESCALATE_TASK",
                      [task_id |-> t,
                       failure_count |->
                           FailureCountOf(IncrementTaskFailureCount(ts, t, reason), t)])
    ELSE ev

\* reject_task(conn, task_id, reason, rejecting_agent)
StoreReject(t) ==
    /\ FailureCountOf(tasks, t) < MaxFail
    /\ tasks' = RejectTaskTasks(tasks, t, "gates failed")
    /\ events' = RejectTaskEvents(events, tasks, t, "gates failed")
    /\ call' = [op |-> "reject", task |-> t]
    /\ EpochKeep
    /\ UNCHANGED <<now, dev, cab, tester, refinery, manager,
                   rejected, delivered, convoyVars, sessionVars, gateVars, supVars>>

NextStore ==
    \/ \E t \in TaskArgs, a \in Devs : StoreClaim(t, a)
    \/ \E t \in TaskArgs, st \in Statuses, a \in Devs \cup {NULL} :
          StoreUpdateStatus(t, st, a)
    \/ \E t \in TaskArgs : StoreIncrement(t)
    \/ \E t \in TaskArgs, to \in TransitionArgs : StoreTransition(t, to)
    \/ \E t \in TaskArgs : StoreReject(t)

SpecStore == Init /\ [][NextStore]_vars

\* ------------------------------------------- the queue, called directly

QueueAgents == {"cab", "tester"}

RECURSIVE Copies(_, _)
\* Rows of S in the table, with their copies.
Copies(ev, S) ==
    IF S = {} THEN 0
    ELSE LET r == CHOOSE x \in S : TRUE IN ev[r] + Copies(ev, S \ {r})

\* How often row r occurs in batch b.
Occurs(b, r) == Cardinality({i \in DOMAIN b : b[i] = r})

\* Mutant of PendingFor: the SELECT also takes rows already processing.
PendingForLoose(ev, a) ==
    {r \in DOMAIN ev : r.agent_id = a /\ r.status \in {"pending", "processing"}}

\* consume_events: WHERE agent_id = ? AND status = 'pending'
PendingFor(ev, a) ==
    {r \in DOMAIN ev : r.agent_id = a /\ r.status = "pending"}

\* consume_events: ORDER BY created_at LIMIT ?.  The result is sorted by
\* created_at and holds the oldest rows; SQL leaves the order of rows with
\* equal created_at, and which of them a LIMIT keeps, unspecified.
Batches(ev, a, limit) ==
    LET P == PendingFor(ev, a)
        n == Min(limit, Copies(ev, P))
    IN  {b \in [1..n -> P] :
            /\ \A i, j \in 1..n : i < j => b[i].created_at <= b[j].created_at
            /\ \A r \in P : Occurs(b, r) <= ev[r]
            /\ \A r \in P : Occurs(b, r) < ev[r] =>
                  \A i \in 1..n : b[i].created_at <= r.created_at}

RECURSIVE MarkProcessing(_, _)
\* consume_events: UPDATE events SET status = 'processing' WHERE id IN (...)
MarkProcessing(ev, b) ==
    IF b = <<>> THEN ev
    ELSE MarkProcessing(
             BagAdd(BagRemove(ev, Head(b)), [Head(b) EXCEPT !.status = "processing"]),
             Tail(b))

\* acknowledge_event: UPDATE events SET status = ?, processed_at = datetime('now')
\* WHERE id = ?  -- whatever the row's status is.
AcknowledgeEvent(ev, r, success) ==
    BagAdd(BagRemove(ev, r),
           [r EXCEPT !.status = IF success THEN "done" ELSE "failed",
                     !.processed_at = SET])

\* Rows in the table; no operation deletes a row.
TableSize(ev) == Copies(ev, DOMAIN ev)

\* publish_event(conn, agent_id, event_type, payload); the payload carries a
\* correlation id, the event's number in publish order.
QPublish(a) ==
    /\ TableSize(events) < MaxQueue
    /\ events' = PublishEvent(events, a, "ROUTE_TASK",
                              [seq |-> TableSize(events) + 1])
    /\ call' = [op |-> "publish", agent |-> a]
    /\ UNCHANGED <<tasks, now, dev, cab, tester, refinery, manager,
                   epoch, rejected, delivered, convoyVars, sessionVars, gateVars, supVars>>

\* A second of wall-clock time passes.
QTick ==
    /\ now < MaxClock
    /\ now' = now + 1
    /\ call' = NoCall
    /\ UNCHANGED <<tasks, events, dev, cab, tester, refinery, manager,
                   epoch, rejected, delivered, convoyVars, sessionVars, gateVars, supVars>>

\* consume_events(conn, agent_id, limit), one BEGIN IMMEDIATE transaction.
QConsume(a, limit) ==
    /\ \E b \in Batches(events, a, limit) :
          /\ events' = MarkProcessing(events, b)
          /\ call' = [op |-> "consume", agent |-> a, limit |-> limit, ret |-> b]
          /\ delivered' = [s \in DOMAIN delivered |->
                              IF \E i \in DOMAIN b : b[i].payload.seq = s
                              THEN Min(delivered[s] + 1, 2) ELSE delivered[s]]
    /\ UNCHANGED <<tasks, now, dev, cab, tester, refinery, manager,
                   epoch, rejected, convoyVars, sessionVars, gateVars, supVars>>

\* acknowledge_event(conn, event_id, success)
QAck(r, success) ==
    /\ events' = AcknowledgeEvent(events, r, success)
    /\ call' = [op |-> "acknowledge", event |-> r, success |-> success]
    /\ UNCHANGED <<tasks, now, dev, cab, tester, refinery, manager,
                   epoch, rejected, delivered, convoyVars, sessionVars, gateVars, supVars>>

NextQueue ==
    \/ \E a \in QueueAgents : QPublish(a)
    \/ QTick
    \/ \E a \in QueueAgents, limit \in 1..MaxLimit : QConsume(a, limit)
    \/ \E r \in DOMAIN events, success \in BOOLEAN : QAck(r, success)

SpecQueue == Init /\ [][NextQueue]_vars


\* --------------------------- convoys and features, called one at a time

\* The calls leave the worker processes, the queue and the task history alone.
convoyFrame ==
    UNCHANGED <<events, dev, cab, tester, refinery, manager, epoch, rejected,
                delivered, alloc, sessionVars, gateVars, supVars>>

\* One more successful allocation of convoy c.
Granted(h, c) == [h EXCEPT ![c].granted = Min(@ + 1, 2)]

\* A second of wall-clock time passes.
CvTick ==
    /\ now < MaxClock
    /\ now' = now + 1
    /\ call' = NoCall
    /\ convoyFrame
    /\ UNCHANGED <<tasks, features, convoys, cvhist>>

\* create_convoy(conn, convoy_id, feature_id, story, priority, files,
\* dependencies); the primary key rejects an id that exists.
CvCreateConvoy(c, f, priority, files, deps) ==
    /\ c \notin DOMAIN convoys
    /\ convoys' = CreateConvoy(convoys, c, f, priority, files, deps)
    /\ call' = NoCall
    /\ convoyFrame
    /\ UNCHANGED <<tasks, now, features, cvhist>>

\* update_convoy_files(conn, convoy_id, files)
CvUpdateFiles(c, files) ==
    /\ convoys' = UpdateConvoyFiles(convoys, c, files)
    /\ call' = [op |-> "update_convoy_files", convoy |-> c, files |-> files]
    /\ convoyFrame
    /\ UNCHANGED <<tasks, now, features, cvhist>>

\* add_file_to_convoy(conn, convoy_id, file_path)
CvAddFile(c, file) ==
    /\ convoys' = AddFileToConvoy(convoys, c, file)
    /\ call' = [op |-> "add_file_to_convoy", convoy |-> c, files |-> {file}]
    /\ convoyFrame
    /\ UNCHANGED <<tasks, now, features, cvhist>>

\* allocate_next_convoy(conn, feature_id, agent_id), run to its return.
CvAllocate(f, a) ==
    /\ IF ListConvoysByFeature(convoys, f, "available") = {}
       THEN /\ call' = [op |-> "allocate", feature |-> f, ret |-> NULL]
            /\ UNCHANGED <<convoys, cvhist>>
       ELSE \E c \in FirstCandidates(convoys, f) :
               IF CheckConvoyDependenciesMet(convoys, c)
               THEN /\ convoys' = UpdateConvoyStatus(convoys, c, "in_progress", a)
                    /\ cvhist' = Granted(cvhist, c)
                    /\ call' = [op |-> "allocate", feature |-> f, ret |-> c]
               ELSE /\ call' = [op |-> "allocate", feature |-> f, ret |-> NULL]
                    /\ UNCHANGED <<convoys, cvhist>>
    /\ convoyFrame
    /\ UNCHANGED <<tasks, now, features>>

\* update_blocked_convoys_status(conn, feature_id), run to its return.
CvBlockSweep(f) ==
    /\ convoys' = UpdateBlockedConvoysStatus(convoys, f)
    /\ call' = [op |-> "block_sweep", feature |-> f]
    /\ convoyFrame
    /\ UNCHANGED <<tasks, now, features, cvhist>>

\* unblock_dependent_convoys(conn, completed_convoy_id), run to its return.
CvUnblockSweep(c) ==
    /\ convoys' = UnblockDependentConvoys(convoys, c)
    /\ cvhist' = [x \in DOMAIN cvhist |->
                     IF /\ x \in DOMAIN convoys
                        /\ convoys[x].status = "blocked"
                        /\ convoys'[x].status = "available"
                     THEN [cvhist[x] EXCEPT !.unblocked = TRUE]
                     ELSE cvhist[x]]
    /\ call' = [op |-> "unblock_sweep", convoy |-> c]
    /\ convoyFrame
    /\ UNCHANGED <<tasks, now, features>>

\* create_task(conn, task_id, convoy_id, ...); the foreign key wants the
\* convoy to exist, the primary key rejects an id that exists.
CvCreateTask(t) ==
    /\ t \notin DOMAIN tasks
    /\ ConvoyOf[t] \in DOMAIN convoys
    /\ tasks' = [x \in DOMAIN tasks \cup {t} |->
                    IF x = t THEN NewTask ELSE tasks[x]]
    /\ call' = NoCall
    /\ convoyFrame
    /\ UNCHANGED <<now, features, convoys, cvhist>>

\* The pipeline finishes a task: update_task_status(conn, task_id, "done").
CvTaskDone(t) ==
    /\ t \in DOMAIN tasks
    /\ tasks[t].status # "done"
    /\ tasks' = UpdateTaskStatus(tasks, t, "done", NULL)
    /\ call' = NoCall
    /\ convoyFrame
    /\ UNCHANGED <<now, features, convoys, cvhist>>

\* check_convoy_completion(conn, convoy_id)
CvCheckConvoy(c) ==
    /\ convoys' = CheckConvoyCompletion(tasks, convoys, c)
    /\ call' = NoCall
    /\ convoyFrame
    /\ UNCHANGED <<tasks, now, features, cvhist>>

\* check_feature_completion(conn, feature_id)
CvCheckFeature(f) ==
    /\ features' = CheckFeatureCompletion(convoys, features, f)
    /\ call' = NoCall
    /\ convoyFrame
    /\ UNCHANGED <<tasks, now, convoys, cvhist>>

\* cleanup_feature(conn, feature_id)
CvCleanup(f) ==
    /\ features' = CleanupFeature(features, f)
    /\ call' = NoCall
    /\ convoyFrame
    /\ UNCHANGED <<tasks, now, convoys, cvhist>>

\* The store with a feature and no convoy or task yet.
InitConvoy ==
    /\ tasks = [t \in {} |-> NewTask]
    /\ events = EmptyTable
    /\ now = 0
    /\ dev = [d \in Devs |-> [pc |-> "idle", todo |-> {}, task |-> NULL]]
    /\ cab = IdleAgent
    /\ tester = IdleAgent
    /\ refinery = IdleAgent
    /\ manager = IdleManager
    /\ call = NoCall
    /\ epoch = [t \in InitialTasks |-> FreshEpoch]
    /\ rejected = [t \in InitialTasks |-> 0]
    /\ delivered = [s \in QueueIds |-> 0]
    /\ features = [f \in Features |-> "in_progress"]
    /\ convoys = NoConvoys
    /\ alloc = [a \in Devs |-> IdleAlloc]
    /\ cvhist = [c \in ConvoyIds |-> FreshConvoy]
    /\ sessions = NoSessions
    /\ host = {}
    /\ hm = IdleMonitor
    /\ results = <<>>
    /\ poll = IdlePoll
    /\ sweep = IdleSweep

\* Dependency lists a caller may pass for convoy c: none, or one other id.
DepArgs(c) == {{}} \cup {{d} : d \in ConvoyIds \ {c}}

NextConvoy ==
    \/ CvTick
    \/ \E c \in ConvoyIds, f \in Features, p \in Priorities, file \in Files :
          \E deps \in DepArgs(c) : CvCreateConvoy(c, f, p, {file}, deps)
    \/ \E f \in Features, a \in Devs : CvAllocate(f, a)
    \/ \E f \in Features : CvBlockSweep(f)
    \/ \E c \in ConvoyIds : CvUnblockSweep(c)
    \/ \E t \in ConvoyTasks : CvCreateTask(t)
    \/ \E t \in ConvoyTasks : CvTaskDone(t)
    \/ \E c \in ConvoyIds : CvCheckConvoy(c)
    \/ \E f \in Features : CvCheckFeature(f)
    \/ \E f \in Features : CvCleanup(f)

SpecConvoy == InitConvoy /\ [][NextConvoy]_vars

\* ------------------------------------ convoy file lists, called one at a time

NextFiles ==
    \/ \E c \in ConvoyIds, f \in Features, files \in SUBSET Files \ {{}} :
          CvCreateConvoy(c, f, "P1", files, {})
    \/ \E c \in ConvoyIds, files \in SUBSET Files : CvUpdateFiles(c, files)
    \/ \E c \in ConvoyIds, file \in Files : CvAddFile(c, file)
    \/ \E f \in Features, a \in Devs : CvAllocate(f, a)
    \/ \E t \in ConvoyTasks : CvCreateTask(t)
    \/ \E t \in ConvoyTasks : CvTaskDone(t)
    \/ \E c \in ConvoyIds : CvCheckConvoy(c)

SpecFiles == InitConvoy /\ [][NextFiles]_vars

\* ------------------------------ allocate_next_convoy in concurrent agents

\* allocate_next_convoy: list_convoys_by_feature, the sort and the pick.
AllocList(f, a) ==
    /\ alloc[a].pc = "idle"
    /\ IF ListConvoysByFeature(convoys, f, "available") = {}
       THEN /\ call' = [op |-> "allocate", ret |-> NULL]
            /\ UNCHANGED alloc
       ELSE \E c \in FirstCandidates(convoys, f) :
               /\ alloc' = [alloc EXCEPT ![a] = [pc |-> "check", convoy |-> c]]
               /\ call' = NoCall
    /\ UNCHANGED <<tasks, events, now, dev, cab, tester, refinery, manager,
                   epoch, rejected, delivered, features, convoys, cvhist, sessionVars, gateVars, supVars>>

\* allocate_next_convoy: check_convoy_dependencies_met on the pick.
AllocCheck(a) ==
    /\ alloc[a].pc = "check"
    /\ IF CheckConvoyDependenciesMet(convoys, alloc[a].convoy)
       THEN /\ alloc' = [alloc EXCEPT ![a].pc = "update"]
            /\ call' = NoCall
       ELSE /\ alloc' = [alloc EXCEPT ![a] = IdleAlloc]
            /\ call' = [op |-> "allocate", ret |-> NULL]
    /\ UNCHANGED <<tasks, events, now, dev, cab, tester, refinery, manager,
                   epoch, rejected, delivered, features, convoys, cvhist, sessionVars, gateVars, supVars>>

\* allocate_next_convoy: update_convoy_status(conn, convoy_id, "in_progress",
\* assignee=agent_id) and the return of the convoy id.
AllocUpdate(a) ==
    /\ alloc[a].pc = "update"
    /\ convoys' = UpdateConvoyStatus(convoys, alloc[a].convoy, "in_progress", a)
    /\ cvhist' = Granted(cvhist, alloc[a].convoy)
    /\ alloc' = [alloc EXCEPT ![a] = IdleAlloc]
    /\ call' = [op |-> "allocate", ret |-> alloc[a].convoy]
    /\ UNCHANGED <<tasks, events, now, dev, cab, tester, refinery, manager,
                   epoch, rejected, delivered, features, sessionVars, gateVars, supVars>>

\* Convoy CA waits for CB; each has one task.
InitRace ==
    /\ tasks = [t \in ConvoyTasks |-> NewTask]
    /\ events = EmptyTable
    /\ now = 0
    /\ dev = [d \in Devs |-> [pc |-> "idle", todo |-> {}, task |-> NULL]]
    /\ cab = IdleAgent
    /\ tester = IdleAgent
    /\ refinery = IdleAgent
    /\ manager = IdleManager
    /\ call = NoCall
    /\ epoch = [t \in InitialTasks |-> FreshEpoch]
    /\ rejected = [t \in InitialTasks |-> 0]
    /\ delivered = [s \in QueueIds |-> 0]
    /\ features = [f \in Features |-> "in_progress"]
    /\ convoys = [c \in {"CA", "CB"} |->
                     [feature_id |-> "F1", priority |-> "P1",
                      status |-> "available",
                      files |-> IF c = "CA" THEN {"src/a.py"} ELSE {"src/b.py"},
                      dependencies |-> IF c = "CA" THEN {"CB"} ELSE {},
                      assignee |-> NULL,
                      created_at |-> IF c = "CA" THEN 1 ELSE 0]]
    /\ alloc = [a \in Devs |-> IdleAlloc]
    /\ cvhist = [c \in ConvoyIds |-> FreshConvoy]
    /\ sessions = NoSessions
    /\ host = {}
    /\ hm = IdleMonitor
    /\ results = <<>>
    /\ poll = IdlePoll
    /\ sweep = IdleSweep

NextRace ==
    \/ \E f \in Features, a \in Devs : AllocList(f, a)
    \/ \E a \in Devs : AllocCheck(a)
    \/ \E a \in Devs : AllocUpdate(a)
    \/ \E t \in ConvoyTasks : CvTaskDone(t)
    \/ \E c \in ConvoyIds : CvCheckConvoy(c)
    \/ \E f \in Features : CvBlockSweep(f)
    \/ \E c \in ConvoyIds : CvUnblockSweep(c)

SpecRace == InitRace /\ [][NextRace]_vars

\* ------------------------------------ sessions, process host, crash sweep

\* spawn_developer: create_session(session_name=agent_id, ...)
SessionName(a) == a

\* _is_process_running and _restart_agent: f"ai-sprint-{agent_id}"
ProbeName(a) == "ai-sprint-" \o a

\* _is_process_running(agent_id): a tmux session of the probed name exists.
IsProcessRunning(h, a) == ProbeName(a) \in h

\* SCHEMA_SQL, agent_sessions: a row of an active developer bound to a convoy
\* and a worktree.
ActiveSession == [status |-> "active", crashed_at |-> NULL, last_heartbeat |-> 0]

\* record_heartbeat: UPDATE agent_sessions SET last_heartbeat = ? WHERE
\* agent_id = ? AND status = 'active'
RecordHeartbeat(ss, a) ==
    IF a \in DOMAIN ss /\ ss[a].status = "active"
    THEN [ss EXCEPT ![a] = [@ EXCEPT !.last_heartbeat = Min(@ + 1, MaxBeat)]]
    ELSE ss

\* get_agent_status: the status of the agent's row, or None.
GetAgentStatus(ss, a) == IF a \in DOMAIN ss THEN ss[a].status ELSE NULL

\* _mark_crashed: UPDATE agent_sessions SET status = 'crashed', crashed_at = ?
\* WHERE agent_id = ?
MarkCrashed(ss, a) ==
    IF a \in DOMAIN ss
    THEN [ss EXCEPT ![a] = [@ EXCEPT !.status = "crashed", !.crashed_at = SET]]
    ELSE ss

\* Mutant of CrashTaskArg: the handler is given the agent's current task.
CrashTaskArgCurrent(ts, a) ==
    IF \E t \in DOMAIN ts : ts[t].assignee = a
    THEN CHOOSE t \in DOMAIN ts : ts[t].assignee = a
    ELSE NULL

\* _check_agent_health: self._handle_agent_failure(agent_id, "crashed") passes
\* no task_id.
CrashTaskArg(ts, a) == NULL

\* _handle_agent_failure: "if task_id:" guards every write to the tasks table.
HandleFailureTasks(ts, task_id) ==
    IF task_id # NULL
    THEN IncrementTaskFailureCount(ts, task_id, "Agent crashed")
    ELSE ts

\* The session calls leave the queue history, the pipeline agents and the
\* convoys alone.
healthFrame ==
    UNCHANGED <<now, cab, tester, refinery, manager, call, epoch, rejected,
                delivered, convoyVars, gateVars, supVars>>

\* spawn_developer(agent_id, convoy_id, worktree_path): create_session raises
\* ValueError when a session of that name exists.
HmSpawn(a) ==
    /\ SessionName(a) \notin host
    /\ host' = host \cup {SessionName(a)}
    /\ healthFrame
    /\ UNCHANGED <<tasks, events, dev, sessions, hm>>

\* The worker's session row is created active once its process runs; the id
\* is the table's primary key, and no statement of the program sets the status
\* of an existing row back to active.
WorkerRegister(a) ==
    /\ SessionName(a) \in host
    /\ a \notin DOMAIN sessions
    /\ sessions' = [x \in DOMAIN sessions \cup {a} |->
                       IF x = a THEN ActiveSession ELSE sessions[x]]
    /\ healthFrame
    /\ UNCHANGED <<tasks, events, dev, host, hm>>

\* The running worker's heartbeat: record_heartbeat(agent_id).
WorkerHeartbeat(a) ==
    /\ SessionName(a) \in host
    /\ sessions' = RecordHeartbeat(sessions, a)
    /\ healthFrame
    /\ UNCHANGED <<tasks, events, dev, host, hm>>

\* The worker's process and its tmux session go away; its locals are lost.
HostDie(a) ==
    /\ SessionName(a) \in host
    /\ host' = host \ {SessionName(a)}
    /\ dev' = [dev EXCEPT ![a] = [pc |-> "idle", todo |-> {}, task |-> NULL]]
    /\ healthFrame
    /\ UNCHANGED <<tasks, events, sessions, hm>>

\* check_crashed_agents: SELECT agent_id FROM agent_sessions WHERE status = 'active'
HmListActive ==
    /\ hm.pc = "idle"
    /\ LET active == {a \in DOMAIN sessions : sessions[a].status = "active"}
       IN  /\ active # {}
           /\ hm' = [hm EXCEPT !.pc = "probe", !.todo = active, !.crashed = {}]
    /\ healthFrame
    /\ UNCHANGED <<tasks, events, dev, sessions, host>>

\* check_crashed_agents: one pass of the loop, _is_process_running and
\* _mark_crashed.
HmProbe ==
    /\ hm.pc = "probe"
    /\ \E a \in hm.todo :
          LET gone    == ~IsProcessRunning(host, a)
              rest    == hm.todo \ {a}
              crashed == IF gone THEN hm.crashed \cup {a} ELSE hm.crashed
          IN  /\ sessions' = IF gone THEN MarkCrashed(sessions, a) ELSE sessions
              /\ hm' = [hm EXCEPT !.todo = rest, !.crashed = crashed,
                                  !.pc = IF rest # {} THEN "probe"
                                         ELSE IF crashed # {} THEN "restart"
                                         ELSE "idle"]
    /\ healthFrame
    /\ UNCHANGED <<tasks, events, dev, host>>

\* _handle_agent_failure(agent_id, "crashed") and _restart_agent(agent_id):
\* destroy_session of the probed name, the session row, spawn_developer; a
\* ValueError of create_session ends in AGENT_RESTART_FAILED.
HmRestart ==
    /\ hm.pc = "restart"
    /\ \E a \in hm.crashed :
          LET h1   == host \ {ProbeName(a)}
              rest == hm.crashed \ {a}
              clash == SessionName(a) \in h1
          IN  /\ tasks' = HandleFailureTasks(tasks, CrashTaskArg(tasks, a))
              /\ host' = IF a \in DOMAIN sessions /\ ~clash
                         THEN h1 \cup {SessionName(a)} ELSE h1
              /\ events' = IF a \in DOMAIN sessions /\ clash
                           THEN PublishEvent(events, "manager",
                                             "AGENT_RESTART_FAILED",
                                             [agent_id |-> a])
                           ELSE events
              /\ hm' = [hm EXCEPT !.crashed = rest,
                                  !.pc = IF rest = {} THEN "idle" ELSE "restart",
                                  !.restarted =
                                      IF a \in DOMAIN sessions /\ ~clash
                                      THEN @ \cup {a} ELSE @]
    /\ healthFrame
    /\ UNCHANGED <<dev, sessions>>

\* A worker acts only while its process runs.
Alive(d) == SessionName(d) \in host

NextHealth ==
    \/ \E a \in Devs : HmSpawn(a)
    \/ \E a \in Devs : WorkerRegister(a)
    \/ \E a \in Devs : WorkerHeartbeat(a)
    \/ \E a \in Devs : HostDie(a)
    \/ HmListActive
    \/ HmProbe
    \/ HmRestart
    \/ \E d \in Devs : Alive(d) /\ DevListTodo(d)
    \/ \E d \in Devs : Alive(d) /\ DevClaim(d)
    \/ \E d \in Devs : Alive(d) /\ DevImplement(d)
    \/ \E d \in Devs : Alive(d) /\ DevPublish(d)
    \/ \E d \in Devs : Alive(d) /\ DevRecover(d)
    \/ \E d \in Devs : Alive(d) /\ DevResume(d)

SpecHealth == Init /\ [][NextHealth]_vars

\* The same, with every running worker sending its heartbeats.
SpecHeartbeat ==
    /\ Init
    /\ [][NextHealth]_vars
    /\ \A a \in Devs : WF_vars(WorkerHeartbeat(a))

\* ------------------------------------------------------------ quality gates

\* GateType
GateTypes == {"linting", "type_checking", "complexity", "coverage",
              "mutation", "sast", "dependency_scan", "secret_detection"}

\* GateStatus
GateStatuses == {"pass", "fail", "skip", "error"}

\* What a _run_*_gate method does: it returns a GateResult of one of the four
\* statuses, or an exception it does not catch leaves it ("raise").
GateOutcomes == GateStatuses \cup {"raise"}

\* Stage names callers pass to run_all_gates; "docs" has no gates.
Stages == {"review", "tests", "merge", "docs"}

\* run_gate: the result of the gate method, or on an exception ERROR for a
\* required gate and SKIP for an optional one; the result is appended.
RunGate(res, gate_type, required, outcome) ==
    Append(res, [gate_type |-> gate_type,
                 status |-> IF outcome = "raise"
                            THEN (IF required THEN "error" ELSE "skip")
                            ELSE outcome])

\* run_all_gates: the gates of each stage, in call order, with "required".
StageGates(stage) ==
    IF stage = "review"
    THEN <<[gate |-> "linting", required |-> TRUE],
           [gate |-> "type_checking", required |-> TRUE],
           [gate |-> "complexity", required |-> TRUE]>>
    ELSE IF stage = "tests"
    THEN <<[gate |-> "coverage", required |-> TRUE],
           [gate |-> "mutation", required |-> FALSE]>>
    ELSE IF stage = "merge"
    THEN <<[gate |-> "sast", required |-> TRUE],
           [gate |-> "dependency_scan", required |-> TRUE],
           [gate |-> "secret_detection", required |-> TRUE]>>
    ELSE <<>>

\* run_all_gates: the run_gate calls of the stage, one after the other.
RECURSIVE RunStage(_, _, _, _)
RunStage(res, gates, oc, i) ==
    IF i > Len(gates) THEN res
    ELSE RunStage(RunGate(res, gates[i].gate, gates[i].required, oc[i]),
                  gates, oc, i + 1)

\* Mutant of RunAllGates: the results of earlier runs are kept.
RunAllGatesAppending(stage, oc) == RunStage(results, StageGates(stage), oc, 1)

\* run_all_gates(stage): self.results = [] and then the stage's gates.
RunAllGates(stage, oc) == RunStage(<<>>, StageGates(stage), oc, 1)

\* all_gates_passed: the loop over self.results from position i.
RECURSIVE PassedFrom(_, _)
PassedFrom(res, i) ==
    IF i > Len(res) THEN TRUE
    ELSE IF res[i].status = "fail" THEN FALSE
    ELSE IF res[i].status = "error" THEN FALSE
    ELSE PassedFrom(res, i + 1)

\* Mutant of AllGatesPassed: only PASS results count as passed.
AllGatesPassedStrict(res) == \A i \in DOMAIN res : res[i].status = "pass"

\* all_gates_passed
AllGatesPassed(res) == PassedFrom(res, 1)

\* The runner touches neither the store nor the agents.
gateFrame ==
    UNCHANGED <<tasks, events, now, dev, cab, tester, refinery, manager,
                epoch, rejected, delivered, convoyVars, sessionVars, supVars>>

\* run_gate(gate_type, required) called directly.
GateRunGate(g, required, outcome) ==
    /\ Len(results) < MaxResults
    /\ results' = RunGate(results, g, required, outcome)
    /\ call' = NoCall
    /\ gateFrame

\* run_all_gates(stage)
GateRunAllGates(stage) ==
    /\ \E oc \in [1..Len(StageGates(stage)) -> GateOutcomes] :
          results' = RunAllGates(stage, oc)
    /\ call' = [op |-> "run_all_gates", stage |-> stage,
                 before |-> Len(results)]
    /\ gateFrame

\* all_gates_passed()
GateAllPassed ==
    /\ call' = [op |-> "all_gates_passed", ret |-> AllGatesPassed(results)]
    /\ UNCHANGED results
    /\ gateFrame

NextGates ==
    \/ \E g \in GateTypes, required \in BOOLEAN, outcome \in GateOutcomes :
          GateRunGate(g, required, outcome)
    \/ \E stage \in Stages : GateRunAllGates(stage)
    \/ GateAllPassed

SpecGates == Init /\ [][NextGates]_vars

\* ------------------------------------------------ Refinery, the merge queue

\* merge_task_ff: get_task; an absent task returns False, a present one goes
\* on to the git checkout and merge, whatever its status.
RefineryMergeFf(t) ==
    /\ refinery.pc = "idle"
    /\ refinery' = IF t \in DOMAIN tasks
                   THEN [pc |-> "ff", task |-> t]
                   ELSE refinery
    /\ UNCHANGED <<tasks, events, now, dev, cab, tester, manager, call,
                   epoch, rejected, delivered, convoyVars, sessionVars, gateVars, supVars>>

\* merge_task_ff and rebase_and_merge, the merge succeeded:
\* update_task_status(conn, task_id, "done").
RefineryFfDone ==
    /\ refinery.pc = "ff"
    /\ tasks' = UpdateTaskStatus(tasks, refinery.task, "done", NULL)
    /\ refinery' = IdleAgent
    /\ EpochKeep
    /\ UNCHANGED <<events, now, dev, cab, tester, manager, call,
                   rejected, delivered, convoyVars, sessionVars, gateVars, supVars>>

\* merge_task_ff and rebase_and_merge, the merge failed: reject_merge, its
\* update_task_status(conn, task_id, "in_progress").
RefineryFfReject ==
    /\ refinery.pc = "ff"
    /\ tasks' = UpdateTaskStatus(tasks, refinery.task, "in_progress", NULL)
    /\ refinery' = [refinery EXCEPT !.pc = "rejected"]
    /\ EpochKeep
    /\ UNCHANGED <<events, now, dev, cab, tester, manager, call,
                   rejected, delivered, convoyVars, sessionVars, gateVars, supVars>>

NextRefinery ==
    \/ Next
    \/ \E t \in TaskArgs : RefineryMergeFf(t)
    \/ RefineryFfDone
    \/ RefineryFfReject

SpecRefinery == Init /\ [][NextRefinery]_vars

\* ------------------------------------------------- the workers' event loops

\* TesterAgent.agent_id (e.g. "test-001")
Testers == {"test-001"}

\* LibrarianAgent.__init__: self.agent_id = "librarian"
Librarian == "librarian"

\* The agent ids under which the workers call consume_events.
WorkerIds == Devs \cup Testers \cup {Librarian}

\* The event loops touch the events table only.
workerFrame ==
    UNCHANGED <<tasks, now, dev, cab, tester, refinery, manager, call, epoch,
                rejected, delivered, convoyVars, sessionVars, gateVars, supVars>>

\* publish_event called with a Developer's or the Tester's own agent_id; the
\* queue accepts any target.
WkPublish(a) ==
    /\ \A r \in DOMAIN events : r.agent_id # a
    /\ events' = PublishEvent(events, a, "ROUTE_TASK", [seq |-> 1])
    /\ workerFrame

\* RefineryAgent.trigger_documentation(convoy_id)
RefineryTriggerDocs(c) ==
    /\ events' = PublishEvent(events, Librarian, "UPDATE_DOCS", [convoy_id |-> c])
    /\ workerFrame

\* DeveloperAgent.process_rework_events: consume_events under self.agent_id;
\* rework_task writes nothing and nothing acknowledges the batch.
DevProcessRework(d) ==
    /\ \E b \in Batches(events, d, ConsumeLimit) :
          events' = MarkProcessing(events, b)
    /\ workerFrame

\* TesterAgent.process_events: consume_events under self.agent_id; only a
\* RUN_TESTS event starts validate_task and nothing acknowledges the batch.
TesterProcessEvents(a) ==
    /\ \E b \in Batches(events, a, ConsumeLimit) :
          /\ \A i \in DOMAIN b : b[i].event_type # "RUN_TESTS"
          /\ events' = MarkProcessing(events, b)
    /\ workerFrame

\* LibrarianAgent.process_events: consume_events under "librarian";
\* update_documentation writes nothing and nothing acknowledges the batch.
LibrarianProcessEvents ==
    /\ \E b \in Batches(events, Librarian, ConsumeLimit) :
          events' = MarkProcessing(events, b)
    /\ workerFrame

NextWorkers ==
    \/ \E d \in Devs : DevListTodo(d)
    \/ \E d \in Devs : DevClaim(d)
    \/ \E d \in Devs : DevImplement(d)
    \/ \E d \in Devs : DevPublish(d)
    \/ \E t \in TaskArgs : CabReview(t)
    \/ CabReject
    \/ CabPublishRework
    \/ \E a \in Devs \cup Testers : WkPublish(a)
    \/ \E c \in ConvoyIds : RefineryTriggerDocs(c)
    \/ \E d \in Devs : DevProcessRework(d)
    \/ \E a \in Testers : TesterProcessEvents(a)
    \/ LibrarianProcessEvents

\* Every worker keeps running its event loop.
SpecWorkers ==
    /\ Init
    /\ [][NextWorkers]_vars
    /\ \A d \in Devs : WF_vars(DevProcessRework(d))
    /\ \A a \in Testers : WF_vars(TesterProcessEvents(a))
    /\ WF_vars(LibrarianProcessEvents)

\* --------------------------------------------------------- recover_state

\* Task ids of the tables recover_state is called on.
RecoverTasks == {"T1", "T2"}

\* SQL NULL in the started_at column of these tables: ORDER BY sorts NULL
\* before every instant.
NullInstant == 0 - 1

\* started_at values: NULL or an instant.
StartTimes == {NullInstant} \cup (0..MaxStart)

\* Mutant of RecoverCandidates: the SELECT forgets the status filter.
RecoverCandidatesAnyStatus(ts, a) ==
    {t \in DOMAIN ts : ts[t].assignee = a}

\* recover_state: WHERE assignee = ? AND status IN ('in_progress',
\* 'in_review', 'in_tests', 'in_docs')
RecoverCandidates(ts, a) ==
    {t \in DOMAIN ts : ts[t].assignee = a /\ ts[t].status \in Active}

\* recover_state: ORDER BY started_at DESC LIMIT 1 and fetchone(); the task
\* ids it may return (rows of equal started_at come in either order), or None.
RecoverState(ts, a) ==
    LET C == RecoverCandidates(ts, a)
    IN  IF C = {} THEN {NULL}
        ELSE {t \in C : \A u \in C :
                 ts[u].started_at <= ts[t].started_at}

\* recover_state() of agent d: the SELECT, self.current_task_id and the
\* return value.
RcRecover(d) ==
    /\ \E ret \in RecoverState(tasks, d) :
          /\ call' = [op |-> "recover", agent |-> d, ret |-> ret]
          /\ dev' = [dev EXCEPT ![d] =
                        IF ret # NULL
                        THEN [pc |-> "resume", todo |-> {}, task |-> ret]
                        ELSE @]
    /\ UNCHANGED <<tasks, events, now, cab, tester, refinery, manager,
                   epoch, rejected, delivered, convoyVars, sessionVars, gateVars, supVars>>

\* Every tasks table of two rows over the statuses, assignees and instants.
InitRecover ==
    /\ tasks \in [RecoverTasks ->
                    {[NewTask EXCEPT !.status = st, !.assignee = a,
                                     !.started_at = x] :
                        st \in Statuses, a \in Devs \cup {NULL},
                        x \in StartTimes}]
    /\ events = EmptyTable
    /\ now = 0
    /\ dev = [d \in Devs |-> [pc |-> "idle", todo |-> {}, task |-> NULL]]
    /\ cab = IdleAgent
    /\ tester = IdleAgent
    /\ refinery = IdleAgent
    /\ manager = IdleManager
    /\ call = NoCall
    /\ epoch = [t \in InitialTasks |-> FreshEpoch]
    /\ rejected = [t \in InitialTasks |-> 0]
    /\ delivered = [s \in QueueIds |-> 0]
    /\ features = [f \in Features |-> "in_progress"]
    /\ convoys = NoConvoys
    /\ alloc = [a \in Devs |-> IdleAlloc]
    /\ cvhist = [c \in ConvoyIds |-> FreshConvoy]
    /\ sessions = NoSessions
    /\ host = {}
    /\ hm = IdleMonitor
    /\ results = <<>>
    /\ poll = IdlePoll
    /\ sweep = IdleSweep

NextRecover == \E d \in Devs : RcRecover(d)

SpecRecover == InitRecover /\ [][NextRecover]_vars

\* ------------------------------------------- Supervisor, _poll_features

\* Feature ids the `start` command may register (the directory basename).
PollFeatures == {"F1", "F2", "F3"}

\* _create_convoys_from_tasks: convoy_id=f"{feature_id}-convoy-1"
PlaceholderConvoyId(f) == f \o "-convoy-1"

\* list_features_by_status(conn, status)
ListFeaturesByStatus(fs, status) == {f \in DOMAIN fs : fs[f] = status}

\* create_feature: INSERT INTO features (id, name, spec_path, status)
CreateFeature(fs, f, status) ==
    [x \in DOMAIN fs \cup {f} |-> IF x = f THEN status ELSE fs[x]]

\* Mutant of PollFailure: the handler only logs the error.
PollFailureLogged(fs, f) == fs

\* _poll_features, the except branch: update_feature_status(.., "failed")
PollFailure(fs, f) == UpdateFeatureStatus(fs, f, "failed")

\* The poll leaves the workers, the queue, the tasks and the sessions alone.
pollFrame ==
    UNCHANGED <<tasks, events, now, dev, cab, tester, refinery, manager,
                epoch, rejected, delivered, alloc, cvhist, sessionVars,
                gateVars, sweep>>

\* `start`: _register_feature creates the feature in ready unless the id is
\* registered already.
RegisterFeature(f) ==
    /\ f \notin DOMAIN features
    /\ features' = CreateFeature(features, f, "ready")
    /\ call' = NoCall
    /\ pollFrame
    /\ UNCHANGED <<convoys, poll>>

\* _poll_features: ready_features = list_features_by_status(conn, "ready");
\* with no row the loop body never runs and the poll returns.
PollList ==
    /\ poll.pc = "idle"
    /\ LET ready == ListFeaturesByStatus(features, "ready")
       IN  IF ready = {}
           THEN /\ poll' = IdlePoll
                /\ call' = [op |-> "poll", ready |-> {}]
           ELSE /\ poll' = [pc |-> "loop", ready |-> ready, todo |-> ready,
                            feature |-> NULL]
                /\ call' = NoCall
    /\ pollFrame
    /\ UNCHANGED <<features, convoys>>

\* The loop body up to its first commit:
\* update_feature_status(conn, feature_id, "in_progress").  The rows come
\* ordered by created_at, which may be equal for any two features.
PollAdvance ==
    /\ poll.pc = "loop"
    /\ \E f \in poll.todo :
          /\ features' = UpdateFeatureStatus(features, f, "in_progress")
          /\ poll' = [poll EXCEPT !.pc = "create", !.feature = f,
                                  !.todo = @ \ {f}]
    /\ call' = NoCall
    /\ pollFrame
    /\ UNCHANGED convoys

\* _create_convoys_from_tasks and the except branch: a missing tasks.md raises
\* FileNotFoundError, an existing convoy id makes the INSERT raise
\* IntegrityError, and either exception marks the feature failed.  After the
\* last feature the poll returns.
PollCreate(tasks_file_exists) ==
    /\ poll.pc = "create"
    /\ LET f == poll.feature
           c == PlaceholderConvoyId(f)
       IN  IF tasks_file_exists /\ c \notin DOMAIN convoys
           THEN /\ convoys' = CreateConvoy(convoys, c, f, "P1",
                                           {"placeholder.py"}, {})
                /\ UNCHANGED features
           ELSE /\ features' = PollFailure(features, f)
                /\ UNCHANGED convoys
    /\ IF poll.todo = {}
       THEN /\ poll' = IdlePoll
            /\ call' = [op |-> "poll", ready |-> poll.ready]
       ELSE /\ poll' = [poll EXCEPT !.pc = "loop", !.feature = NULL]
            /\ call' = NoCall
    /\ pollFrame

\* Ctrl+C: KeyboardInterrupt is no Exception, so it leaves _poll_features
\* wherever it is and start() stops the Supervisor; a later `start` runs a
\* new one.
PollInterrupt ==
    /\ poll.pc # "idle"
    /\ poll' = IdlePoll
    /\ call' = NoCall
    /\ pollFrame
    /\ UNCHANGED <<features, convoys>>

\* The store before the first `start`.
InitPoll ==
    /\ tasks = [t \in {} |-> NewTask]
    /\ events = EmptyTable
    /\ now = 0
    /\ dev = [d \in Devs |-> [pc |-> "idle", todo |-> {}, task |-> NULL]]
    /\ cab = IdleAgent
    /\ tester = IdleAgent
    /\ refinery = IdleAgent
    /\ manager = IdleManager
    /\ call = NoCall
    /\ epoch = [t \in InitialTasks |-> FreshEpoch]
    /\ rejected = [t \in InitialTasks |-> 0]
    /\ delivered = [s \in QueueIds |-> 0]
    /\ features = [f \in {} |-> NULL]
    /\ convoys = NoConvoys
    /\ alloc = [a \in Devs |-> IdleAlloc]
    /\ cvhist = [c \in ConvoyIds |-> FreshConvoy]
    /\ sessions = NoSessions
    /\ host = {}
    /\ hm = IdleMonitor
    /\ results = <<>>
    /\ poll = IdlePoll
    /\ sweep = IdleSweep

NextPoll ==
    \/ \E f \in PollFeatures : RegisterFeature(f)
    \/ PollList
    \/ PollAdvance
    \/ \E tasks_file_exists \in BOOLEAN : PollCreate(tasks_file_exists)
    \/ PollInterrupt

SpecPoll == InitPoll /\ [][NextPoll]_vars


\* ------------------------------- Supervisor, the three sweeps of one tick

\* check_hung_agents: threshold_time = datetime.now() - self.hung_threshold;
\* the clock of this section counts in units of agent_hung_seconds.
ThresholdTime(t) == t - 1

\* check_hung_agents: SELECT ... WHERE status = 'active' AND last_heartbeat < ?
StaleAgents(ss, t) ==
    {a \in DOMAIN ss :
        ss[a].status = "active" /\ ss[a].last_heartbeat < ThresholdTime(t)}

\* record_heartbeat at clock time t: the UPDATE writes datetime.now().
RecordHeartbeatAt(ss, a, t) ==
    IF a \in DOMAIN ss /\ ss[a].status = "active"
    THEN [ss EXCEPT ![a] = [@ EXCEPT !.last_heartbeat = t]]
    ELSE ss

\* _mark_hung: UPDATE agent_sessions SET status = 'hung' WHERE agent_id = ?
MarkHung(ss, a) ==
    IF a \in DOMAIN ss
    THEN [ss EXCEPT ![a] = [@ EXCEPT !.status = "hung"]]
    ELSE ss

\* _mark_stuck: UPDATE agent_sessions SET status = 'stuck' WHERE agent_id = ?
MarkStuck(ss, a) ==
    IF a \in DOMAIN ss
    THEN [ss EXCEPT ![a] = [@ EXCEPT !.status = "stuck"]]
    ELSE ss

\* _restart_agent: destroy_session(f"ai-sprint-{agent_id}"), then, for a
\* session row that exists, spawn_developer, whose create_session raises
\* ValueError when a session of the agent's name is alive.
RestartHost(h, ss, a) ==
    LET h1 == h \ {ProbeName(a)}
    IN  IF a \in DOMAIN ss /\ SessionName(a) \notin h1
        THEN h1 \cup {SessionName(a)} ELSE h1

\* _handle_agent_failure: the except branch publishes AGENT_RESTART_FAILED.
RestartEvents(ev, h, ss, a) ==
    IF a \in DOMAIN ss /\ SessionName(a) \in h \ {ProbeName(a)}
    THEN PublishEvent(ev, "manager", "AGENT_RESTART_FAILED", [agent_id |-> a])
    ELSE ev

\* The sweeps leave the pipeline agents, the convoys and the history alone.
sweepFrame ==
    UNCHANGED <<cab, tester, refinery, manager, call, epoch, rejected,
                delivered, convoyVars, gateVars, poll, hm>>

\* Time passes.
SwClock ==
    /\ now < MaxAge
    /\ now' = now + 1
    /\ sweepFrame
    /\ UNCHANGED <<tasks, events, dev, sessions, host, sweep>>

\* The worker's session row is created active, with the creation time as
\* its first heartbeat (last_heartbeat is NOT NULL).
SwRegister(a) ==
    /\ SessionName(a) \in host
    /\ a \notin DOMAIN sessions
    /\ sessions' = [x \in DOMAIN sessions \cup {a} |->
                       IF x = a THEN [ActiveSession EXCEPT !.last_heartbeat = now]
                       ELSE sessions[x]]
    /\ sweepFrame
    /\ UNCHANGED <<tasks, events, now, dev, host, sweep>>

\* The running worker's heartbeat: record_heartbeat(agent_id).
SwHeartbeat(a) ==
    /\ SessionName(a) \in host
    /\ sessions' = RecordHeartbeatAt(sessions, a, now)
    /\ sweepFrame
    /\ UNCHANGED <<tasks, events, now, dev, host, sweep>>

\* check_crashed_agents: SELECT agent_id FROM agent_sessions WHERE status = 'active'
SwCrashSelect ==
    /\ sweep.pc = "idle"
    /\ sweep' = [pc |-> "crash", failed |-> {},
                 todo |-> {[agent_id |-> a, task_id |-> NULL] :
                              a \in {x \in DOMAIN sessions :
                                        sessions[x].status = "active"}}]
    /\ sweepFrame
    /\ UNCHANGED <<tasks, events, now, dev, sessions, host>>

\* check_crashed_agents: one pass of the loop.
SwCrashProbe ==
    /\ sweep.pc = "crash"
    /\ \E r \in sweep.todo :
          LET gone == ~IsProcessRunning(host, r.agent_id)
          IN  /\ sessions' = IF gone THEN MarkCrashed(sessions, r.agent_id)
                             ELSE sessions
              /\ sweep' = [sweep EXCEPT !.todo = @ \ {r},
                                        !.failed = IF gone THEN @ \cup {r} ELSE @]
    /\ sweepFrame
    /\ UNCHANGED <<tasks, events, now, dev, host>>

\* _handle_agent_failure(agent_id, failure_type, task_id) for one row a sweep
\* returned.  With a task_id: increment_task_failure_count, and at three
\* failures ESCALATE_TASK, the task back to todo, and no restart.  Its commits
\* write tasks and events only and are taken together.
SwHandle ==
    /\ sweep.pc \in {"crash", "hung", "stuck"}
    /\ sweep.todo = {}
    /\ \E r \in sweep.failed :
          LET ts == IF r.task_id # NULL
                    THEN IncrementTaskFailureCount(tasks, r.task_id, "Agent stuck")
                    ELSE tasks
              escalate == /\ r.task_id # NULL
                          /\ FailureCountOf(ts, r.task_id) >= EscalateAfter
          IN  /\ tasks' = IF escalate THEN EscalateUpdate(ts, r.task_id) ELSE ts
              /\ events' =
                    IF escalate
                    THEN PublishEvent(events, "architect", "ESCALATE_TASK",
                                      [task_id |-> r.task_id,
                                       failure_count |-> FailureCountOf(ts, r.task_id)])
                    ELSE RestartEvents(events, host, sessions, r.agent_id)
              /\ host' = IF escalate THEN host
                         ELSE RestartHost(host, sessions, r.agent_id)
              /\ sweep' = [sweep EXCEPT !.failed = @ \ {r}]
    /\ sweepFrame
    /\ UNCHANGED <<now, dev, sessions>>

\* check_hung_agents: the SELECT of the active rows with a stale heartbeat.
SwHungSelect ==
    /\ sweep.pc = "crash"
    /\ sweep.todo = {}
    /\ sweep.failed = {}
    /\ sweep' = [pc |-> "hung", failed |-> {},
                 todo |-> {[agent_id |-> a, task_id |-> NULL] :
                              a \in StaleAgents(sessions, now)}]
    /\ sweepFrame
    /\ UNCHANGED <<tasks, events, now, dev, sessions, host>>

\* check_hung_agents: one pass of the loop, _mark_hung.
SwHungMark ==
    /\ sweep.pc = "hung"
    /\ \E r \in sweep.todo :
          /\ sessions' = MarkHung(sessions, r.agent_id)
          /\ sweep' = [sweep EXCEPT !.todo = @ \ {r}, !.failed = @ \cup {r}]
    /\ sweepFrame
    /\ UNCHANGED <<tasks, events, now, dev, host>>

\* check_stuck_tasks: the SELECT of the long-running tasks.
SwStuckSelect ==
    /\ sweep.pc = "hung"
    /\ sweep.todo = {}
    /\ sweep.failed = {}
    /\ \A t \in LongTasks : tasks[t].failure_count < MaxFail
    /\ sweep' = [pc |-> "stuck", failed |-> {},
                 todo |-> {[agent_id |-> tasks[t].assignee, task_id |-> t] :
                              t \in LongTasks}]
    /\ sweepFrame
    /\ UNCHANGED <<tasks, events, now, dev, sessions, host>>

\* check_stuck_tasks: one pass of the loop, "if agent_id: _mark_stuck".
SwStuckMark ==
    /\ sweep.pc = "stuck"
    /\ \E r \in sweep.todo :
          /\ sessions' = IF r.agent_id # NULL
                         THEN MarkStuck(sessions, r.agent_id) ELSE sessions
          /\ sweep' = [sweep EXCEPT !.todo = @ \ {r}, !.failed = @ \cup {r}]
    /\ sweepFrame
    /\ UNCHANGED <<tasks, events, now, dev, host>>

\* start(): time.sleep(self.polling_interval) after the tick.
SwSleep ==
    /\ sweep.pc = "stuck"
    /\ sweep.todo = {}
    /\ sweep.failed = {}
    /\ sweep' = IdleSweep
    /\ sweepFrame
    /\ UNCHANGED <<tasks, events, now, dev, sessions, host>>

NextSweeps ==
    \/ SwClock
    \/ \E a \in Devs : HmSpawn(a)
    \/ \E a \in Devs : SwRegister(a)
    \/ \E a \in Devs : SwHeartbeat(a)
    \/ \E a \in Devs : HostDie(a)
    \/ SwCrashSelect
    \/ SwCrashProbe
    \/ SwHandle
    \/ SwHungSelect
    \/ SwHungMark
    \/ SwStuckSelect
    \/ SwStuckMark
    \/ SwSleep
    \/ \E d \in Devs : Alive(d) /\ DevListTodo(d)
    \/ \E d \in Devs : Alive(d) /\ DevClaim(d)

SpecSweeps == Init /\ [][NextSweeps]_vars


\* ------------------------------------- developers claiming from convoys

\* claim_next_task(convoy_id): list_tasks_by_convoy(conn, convoy_id,
\* status="todo"); the convoys table is not read.
DevListConvoyTodo(d, c) ==
    /\ dev[d].pc = "idle"
    /\ LET todo == {t \in ListTasksByConvoy(tasks, c) : tasks[t].status = "todo"}
       IN  dev' = [dev EXCEPT ![d] =
                      IF todo = {} THEN @
                      ELSE [pc |-> "claim", todo |-> todo, task |-> NULL]]
    /\ UNCHANGED <<tasks, events, now, cab, tester, refinery, manager, call,
                   epoch, rejected, delivered, convoyVars, sessionVars,
                   gateVars, supVars>>

NextClaim ==
    \/ \E c \in ConvoyIds, f \in Features, p \in Priorities, file \in Files :
          \E deps \in DepArgs(c) : CvCreateConvoy(c, f, p, {file}, deps)
    \/ \E t \in ConvoyTasks : CvCreateTask(t)
    \/ \E f \in Features, a \in Devs : CvAllocate(f, a)
    \/ \E f \in Features : CvBlockSweep(f)
    \/ \E d \in Devs, c \in ConvoyIds : DevListConvoyTodo(d, c)
    \/ \E d \in Devs : DevClaim(d)

SpecClaim == InitConvoy /\ [][NextClaim]_vars


\* ================================================================ claims

\* An ESCALATE_TASK row of the events table that names task t.
EscalateEventFor(ev, t) ==
    \E r \in DOMAIN ev :
        r.event_type = "ESCALATE_TASK" /\ r.payload.task_id = t

\* C1: since a task last returned to todo, at most one claim call on it has
\* returned true, whatever the interleaving of the claimants; when the first
\* claimant met the task todo and unassigned, exactly one call returned true;
\* and a call that returned true left the task in_progress and assigned to
\* its caller.
C1_AtMostOneClaim ==
    \A t \in DOMAIN tasks :
        /\ epoch[t].wins <= 1
        /\ (epoch[t].callers # {} /\ epoch[t].first_todo) => epoch[t].wins = 1
        /\ epoch[t].held

\* Both developers raced for T1 after the Supervisor had returned it to todo.
C1_Witness ==
    /\ epoch["T1"].callers = Devs
    /\ epoch["T1"].first_todo
    /\ epoch["T1"].wins = 1
    /\ tasks["T1"].failure_count >= EscalateAfter

\* C2: claim(task, agent) returns true exactly when the task exists, is todo
\* and has no assignee, and then the row is in_progress and assigned to the
\* agent; in every other case it returns false and the tasks table is
\* unchanged.
C2_ClaimContract ==
    [][call'.op = "claim" =>
          LET t == call'.task
              a == call'.agent
              claimable == /\ t \in DOMAIN tasks
                           /\ tasks[t].status = "todo"
                           /\ tasks[t].assignee = NULL
          IN  /\ call'.ret = claimable
              /\ claimable =>
                    /\ tasks'[t].status = "in_progress"
                    /\ tasks'[t].assignee = a
                    /\ tasks'[t].failure_count = tasks[t].failure_count
              /\ ~claimable => tasks' = tasks]_vars

\* A claim that returned true on a task that had failed before.
C2_Witness ==
    /\ call.op = "claim"
    /\ call.ret
    /\ tasks[call.task].status = "in_progress"
    /\ tasks[call.task].assignee = call.agent
    /\ tasks[call.task].failure_count >= 1

\* C3: every change of a task's status is one of the nine legal transitions.
C3_LegalTransitions ==
    [][\A t \in DOMAIN tasks :
          tasks'[t].status # tasks[t].status =>
              validate_task_transition(tasks[t].status, tasks'[t].status)]_vars

\* C4: done is terminal: a task that is done stays done.
C4_DoneTerminal ==
    [][\A t \in DOMAIN tasks :
          tasks[t].status = "done" => tasks'[t].status = "done"]_vars

\* C5: every task that is in_progress, in_review, in_tests or in_docs has an
\* assignee.
C5_ActiveHasAssignee ==
    \A t \in DOMAIN tasks :
        tasks[t].status \in Active => tasks[t].assignee # NULL

\* C6: every completed rejection by CAB, Tester or Refinery has added one to
\* the task's failure_count and set its failure_reason; so a task that was
\* rejected and later merged is done with failure_count >= 1.
C6_RejectCountsFailure ==
    \A t \in DOMAIN tasks :
        /\ tasks[t].failure_count >= rejected[t]
        /\ rejected[t] >= 1 => tasks[t].failure_reason # NULL
        /\ (tasks[t].status = "done" /\ rejected[t] >= 1) =>
              tasks[t].failure_count >= 1

\* C7: when the third rejection of a task completes, an ESCALATE_TASK event
\* for it with failure_count = 3 exists, its status is todo and its assignee
\* is null.
C7_ThirdRejectEscalates ==
    [][\A t \in DOMAIN tasks :
          (rejected[t] = EscalateAfter - 1 /\ rejected'[t] = EscalateAfter) =>
              /\ \E r \in DOMAIN events' :
                    /\ r.event_type = "ESCALATE_TASK"
                    /\ r.payload.task_id = t
                    /\ r.payload.failure_count = EscalateAfter
              /\ tasks'[t].status = "todo"
              /\ tasks'[t].assignee = NULL]_vars

\* C8: in every state of the store, a task with failure_count >= 3 has an
\* ESCALATE_TASK event naming it.
C8_EscalatedIfThreeFailures ==
    \A t \in DOMAIN tasks :
        tasks[t].failure_count >= EscalateAfter => EscalateEventFor(events, t)

\* C9: no event is returned by two consume calls, and every event a consume
\* call returns was pending before the call and is processing after it.
C9_ConsumeOnce ==
    [][/\ \A s \in QueueIds : delivered'[s] <= 1
       /\ call'.op = "consume" =>
             \A i \in DOMAIN call'.ret :
                 /\ call'.ret[i] \in DOMAIN events
                 /\ call'.ret[i].status = "pending"
                 /\ [call'.ret[i] EXCEPT !.status = "processing"] \in DOMAIN events'
      ]_vars

\* Two consume calls for one agent, each returning one of its two events.
C9_Witness ==
    /\ call.op = "consume"
    /\ Len(call.ret) = 1
    /\ \E r \in DOMAIN events :
          /\ r.agent_id = call.agent
          /\ r.status = "processing"
          /\ r.payload.seq # call.ret[1].payload.seq
          /\ delivered[r.payload.seq] = 1
    /\ delivered[call.ret[1].payload.seq] = 1

C11_AckOnlyProcessing ==
    [][call'.op = "acknowledge" =>
          LET r == call'.event
          IN  /\ r.status # "processing" => events' = events
              /\ r.status = "processing" =>
                    [r EXCEPT !.status = IF call'.success THEN "done" ELSE "failed",
                              !.processed_at = SET] \in DOMAIN events']_vars

\* A convoy's dependencies all exist and are done.
DepsAllDone(cv, c) ==
    \A d \in cv[c].dependencies : d \in DOMAIN cv /\ cv[d].status = "done"

\* Row r1 sorts strictly before r2 by (priority, created_at), P1 first.
KeyLess(r1, r2) ==
    \/ PriorityRank(r1.priority) < PriorityRank(r2.priority)
    \/ r1.priority = r2.priority /\ r1.created_at < r2.created_at

\* C12: no convoy is returned by two successful allocate-next calls.
C12_AllocatedOnce ==
    \A c \in DOMAIN convoys : cvhist[c].granted <= 1

\* C13: allocate-next moves a convoy to in_progress only when every convoy
\* in its dependencies exists and is done at that moment.
C13_AllocatedAfterDeps ==
    [][\A c \in DOMAIN convoys :
          cvhist'[c].granted > cvhist[c].granted => DepsAllDone(convoys, c)]_vars

C15_FilesDisjoint ==
    \A c1, c2 \in DOMAIN convoys :
        (/\ c1 # c2
         /\ convoys[c1].feature_id = convoys[c2].feature_id
         /\ convoys[c1].status # "done"
         /\ convoys[c2].status # "done")
        => convoys[c1].files \cap convoys[c2].files = {}

\* C16: a done feature has only done convoys, and a done convoy has only
\* done tasks.
C16_DoneIsDownwardClosed ==
    /\ \A f \in DOMAIN features :
          features[f] = "done" =>
              \A c \in DOMAIN convoys :
                  convoys[c].feature_id = f => convoys[c].status = "done"
    /\ \A c \in DOMAIN convoys :
          convoys[c].status = "done" =>
              \A t \in DOMAIN tasks :
                  ConvoyOf[t] = c => tasks[t].status = "done"

\* C17: the block sweep blocks exactly the available convoys of the feature
\* that have a dependency which is not done; the unblock sweep makes
\* available exactly the blocked convoys of the completed convoy's feature
\* whose dependencies are all done; and when an unblocked convoy is the only
\* available one, the next allocate-next returns it.
C17_BlockUnblockAllocate ==
    [][/\ call'.op = "block_sweep" =>
             \A c \in DOMAIN convoys :
                 convoys'[c] =
                     IF /\ convoys[c].feature_id = call'.feature
                        /\ convoys[c].status = "available"
                        /\ ~DepsAllDone(convoys, c)
                     THEN [convoys[c] EXCEPT !.status = "blocked"]
                     ELSE convoys[c]
       /\ call'.op = "unblock_sweep" =>
             IF call'.convoy \in DOMAIN convoys
             THEN \A c \in DOMAIN convoys :
                     convoys'[c] =
                         IF /\ convoys[c].feature_id =
                                   convoys[call'.convoy].feature_id
                            /\ convoys[c].status = "blocked"
                            /\ DepsAllDone(convoys, c)
                         THEN [convoys[c] EXCEPT !.status = "available"]
                         ELSE convoys[c]
             ELSE convoys' = convoys
       /\ call'.op = "allocate" =>
             \A c \in DOMAIN convoys :
                 (/\ cvhist[c].unblocked
                  /\ ListConvoysByFeature(convoys, convoys[c].feature_id,
                                          "available") = {c})
                 => call'.ret = c]_vars

\* CA was blocked behind CB, unblocked once CB was done, and then allocated.
C17_Witness ==
    /\ call.op = "allocate"
    /\ call.ret # NULL
    /\ cvhist[call.ret].unblocked
    /\ convoys[call.ret].status = "in_progress"
    /\ convoys[call.ret].dependencies # {}
    /\ \A d \in convoys[call.ret].dependencies :
          d \in DOMAIN convoys /\ convoys[d].status = "done"

\* C18: the crash sweep marks a session crashed, stamping crashed_at, only
\* when the session is active and the process host has no live session of
\* that agent.
C18_CrashedOnlyIfGone ==
    [][\A a \in DOMAIN sessions :
          (sessions[a].status # "crashed" /\ sessions'[a].status = "crashed") =>
              /\ sessions[a].status = "active"
              /\ sessions'[a].crashed_at = SET
              /\ SessionName(a) \notin host]_vars

\* C19: the crash sweep, the restart and the replacement's recover() leave
\* every task's status, assignee and failure_count unchanged, and the task
\* recover() returns is in an active status and assigned to the recovering
\* agent.
C19_CrashHandlingKeepsTasks ==
    [][\A d \in Devs :
          /\ (sessions' # sessions \/ host' # host \/ hm' # hm) =>
                \A t \in DOMAIN tasks :
                    /\ tasks'[t].status = tasks[t].status
                    /\ tasks'[t].assignee = tasks[t].assignee
                    /\ tasks'[t].failure_count = tasks[t].failure_count
          /\ (dev[d].pc = "idle" /\ dev'[d].pc = "resume") =>
                /\ tasks' = tasks
                /\ tasks[dev'[d].task].assignee = d
                /\ tasks[dev'[d].task].status \in Active]_vars

\* A developer's process died while it held a task in_progress; the session
\* was marked crashed, the agent respawned, and recover() returned the task.
C19_Witness ==
    \E d \in Devs :
        /\ d \in hm.restarted
        /\ d \in DOMAIN sessions
        /\ sessions[d].status = "crashed"
        /\ Alive(d)
        /\ dev[d].pc = "resume"
        /\ tasks[dev[d].task].status = "in_progress"
        /\ tasks[dev[d].task].assignee = d

\* C20: when the Supervisor's handling of a stuck report ends with the
\* task's failure_count after the increment at 3 or more, an ESCALATE_TASK
\* event for the task exists, the task is todo, unassigned and carries the
\* escalation failure_reason; when the count after the increment is below 3,
\* the increment leaves every task's status and assignee unchanged.
C20_StuckEscalation ==
    [][/\ (manager.pc = "unassign" /\ manager' # manager) =>
             /\ manager.failure_count >= EscalateAfter
             /\ EscalateEventFor(events', manager.task)
             /\ tasks'[manager.task].status = "todo"
             /\ tasks'[manager.task].assignee = NULL
             /\ tasks'[manager.task].failure_reason = "Escalated"
       /\ (manager.pc = "handle" /\ manager' # manager) =>
             \A t \in DOMAIN tasks :
                 /\ tasks'[t].failure_count >= EscalateAfter
                       => (tasks'[t] = tasks[t] \/ manager'.pc = "escalate")
                 /\ tasks'[t].status = tasks[t].status
                 /\ tasks'[t].assignee = tasks[t].assignee]_vars

\* The Supervisor escalated a stuck task that a developer held: it is back
\* in todo, unassigned, with three failures and the escalation event.
C20_Witness ==
    \E t \in DOMAIN tasks :
        /\ manager.pc = "idle"
        /\ tasks[t].failure_count = EscalateAfter
        /\ tasks[t].failure_reason = "Escalated"
        /\ tasks[t].status = "todo"
        /\ tasks[t].assignee = NULL
        /\ rejected[t] = 0
        /\ EscalateEventFor(events, t)

C22_OptionalNeverBlocks ==
    (call.op = "run_all_gates" /\ call.stage = "tests") =>
        AllGatesPassed(results) = AllGatesPassed(SubSeq(results, 1, 1))

\* C23: a task's status changes in_review -> in_tests only in the CAB's
\* approval after its review gates passed for that task, in_tests -> in_docs
\* only in the Tester's approval after its tests gates passed, and to done
\* only from in_docs and only in the Refinery's merge after its merge gates
\* passed.
C23_AdvanceOnlyThroughGates ==
    [][\A t \in DOMAIN tasks :
          /\ (tasks[t].status = "in_review" /\ tasks'[t].status = "in_tests") =>
                (cab.pc = "gates" /\ cab.task = t)
          /\ (tasks[t].status = "in_tests" /\ tasks'[t].status = "in_docs") =>
                (tester.pc = "validated" /\ tester.task = t)
          /\ (tasks[t].status # "done" /\ tasks'[t].status = "done") =>
                /\ tasks[t].status = "in_docs"
                /\ refinery.pc = "gates"
                /\ refinery.task = t]_vars

\* A REWORK_NEEDED event for task t is in the table with the given status.
ReworkEvent(t, status) ==
    \E r \in DOMAIN events :
        /\ r.event_type = "REWORK_NEEDED"
        /\ r.payload.task_id = t
        /\ r.status = status

\* C24: every REWORK_NEEDED event published by a rejection is eventually
\* returned by a consume call of a developer (it leaves pending).
C24_ReworkReachesDeveloper ==
    \A t \in InitialTasks :
        ReworkEvent(t, "pending") ~> ReworkEvent(t, "processing")

\* The events a worker can consume: target, type and payload.
WorkerEvents ==
    {[agent_id |-> a, event_type |-> "ROUTE_TASK", payload |-> [seq |-> 1]] :
        a \in Devs \cup Testers}
    \cup {[agent_id |-> Librarian, event_type |-> "UPDATE_DOCS",
           payload |-> [convoy_id |-> c]] : c \in ConvoyIds}

\* Event e is in the table with the given status.
EventHas(e, status) ==
    \E r \in DOMAIN events :
        /\ r.agent_id = e.agent_id
        /\ r.event_type = e.event_type
        /\ r.payload = e.payload
        /\ r.status = status

\* C25: every event a running Developer, Tester or Librarian has consumed
\* (processing) is eventually acknowledged as done or failed.
C25_ConsumedIsAcknowledged ==
    \A e \in WorkerEvents :
        EventHas(e, "processing") ~> (EventHas(e, "done") \/ EventHas(e, "failed"))

\* Convoy c depends on convoy d through at most n stored dependency lists.
RECURSIVE DependsOn(_, _, _, _)
DependsOn(cv, c, d, n) ==
    /\ n > 0
    /\ c \in DOMAIN cv
    /\ \/ d \in cv[c].dependencies
       \/ \E x \in cv[c].dependencies : DependsOn(cv, x, d, n - 1)

\* C26: in every state the dependency graph over the stored convoys of a
\* feature is acyclic: no convoy depends, directly or transitively, on itself.
C26_DependenciesAcyclic ==
    \A c \in DOMAIN convoys :
        ~DependsOn(convoys, c, c, Cardinality(ConvoyIds))

\* C27: recover() of agent A returns a task if and only if some task is
\* assigned to A in an active status; the task returned is assigned to A, is
\* active and has the latest started_at among these; the call leaves the
\* tasks and events tables unchanged.
C27_RecoverContract ==
    [][call'.op = "recover" =>
          LET a   == call'.agent
              ret == call'.ret
          IN  /\ tasks' = tasks
              /\ events' = events
              /\ (ret # NULL) <=>
                    (\E t \in DOMAIN tasks :
                        tasks[t].assignee = a /\ tasks[t].status \in Active)
              /\ ret # NULL =>
                    /\ ret \in DOMAIN tasks
                    /\ tasks[ret].assignee = a
                    /\ tasks[ret].status \in Active
                    /\ \A u \in DOMAIN tasks :
                          (tasks[u].assignee = a /\ tasks[u].status \in Active) =>
                              tasks[u].started_at
                                  <= tasks[ret].started_at]_vars

\* recover() chose between two active tasks of its agent and returned the one
\* started later; the other agent's recover() would find nothing.
C27_Witness ==
    /\ call.op = "recover"
    /\ call.ret # NULL
    /\ \E u \in DOMAIN tasks :
          /\ u # call.ret
          /\ tasks[u].assignee = call.agent
          /\ tasks[u].status \in Active
          /\ tasks[u].started_at # NullInstant
          /\ tasks[u].started_at < tasks[call.ret].started_at

\* C28: a session of a restarted agent that is crashed does not stay so
\* while the replacement worker runs and sends heartbeats: it becomes active
\* again (or the replacement's process goes away).
C28_RestartedBecomesActive ==
    \A a \in Devs :
        (a \in hm.restarted /\ GetAgentStatus(sessions, a) = "crashed" /\ Alive(a))
            ~> (GetAgentStatus(sessions, a) = "active" \/ ~Alive(a))

\* The nine legal transitions of a task's status.
LegalTransitions ==
    {<<"todo", "in_progress">>, <<"in_progress", "in_review">>,
     <<"in_review", "in_tests">>, <<"in_review", "in_progress">>,
     <<"in_tests", "in_docs">>, <<"in_tests", "in_progress">>,
     <<"in_docs", "done">>, <<"in_docs", "in_progress">>,
     <<"in_progress", "todo">>}

\* C29: transition(task, to) returns true and sets the status to `to` exactly
\* when the task exists and (current status, to) is one of the nine legal
\* transitions; otherwise it returns false and leaves the tasks table unchanged.
C29_TransitionContract ==
    [][call'.op = "transition" =>
          LET t     == call'.task
              to    == call'.to
              legal == t \in DOMAIN tasks /\ <<tasks[t].status, to>> \in LegalTransitions
          IN  /\ call'.ret = legal
              /\ legal => tasks'[t].status = to
              /\ ~legal => tasks' = tasks]_vars

\* A transition out of done was asked for and refused.
C29_Witness ==
    /\ call.op = "transition"
    /\ call.ret = FALSE
    /\ call.task \in DOMAIN tasks
    /\ tasks[call.task].status = "done"
    /\ call.to = "in_progress"

\* C30: reject(task, reason, agent) on a task whose status is todo,
\* in_progress or done changes neither the task's failure_count,
\* failure_reason, status or assignee nor the events table.
C30_IllegalRejectAborts ==
    [][(/\ call'.op = "reject"
        /\ call'.task \in DOMAIN tasks
        /\ tasks[call'.task].status \in {"todo", "in_progress", "done"}) =>
          /\ tasks'[call'.task].failure_count = tasks[call'.task].failure_count
          /\ tasks'[call'.task].failure_reason = tasks[call'.task].failure_reason
          /\ tasks'[call'.task].status = tasks[call'.task].status
          /\ tasks'[call'.task].assignee = tasks[call'.task].assignee
          /\ events' = events]_vars


\* C31: in the step in which a convoy becomes done, every blocked convoy of
\* the same feature whose dependencies are all done afterwards is made
\* available by that same step.
C31_CompletionUnblocks ==
    [][\A c \in DOMAIN convoys :
          (convoys[c].status # "done" /\ convoys'[c].status = "done") =>
             \A b \in DOMAIN convoys :
                (/\ convoys'[b].feature_id = convoys'[c].feature_id
                 /\ CheckConvoyDependenciesMet(convoys', b)) =>
                    convoys'[b].status # "blocked"]_vars


\* C32: when a poll returns, every feature that was ready at its start is
\* in_progress with a convoy under it, or failed, and none is ready; and no
\* step creates a convoy under a feature that already has one.
C32_PollMaterialisesOnce ==
    [][/\ call'.op = "poll" =>
             \A f \in call'.ready :
                \/ /\ features'[f] = "in_progress"
                   /\ \E c \in DOMAIN convoys' : convoys'[c].feature_id = f
                \/ features'[f] = "failed"
       /\ \A c \in DOMAIN convoys' \ DOMAIN convoys :
             \A o \in DOMAIN convoys :
                convoys[o].feature_id # convoys'[c].feature_id]_vars

\* A poll returned with one feature materialised and another one failed.
C32_Witness ==
    /\ call.op = "poll"
    /\ \E f \in call.ready :
          /\ features[f] = "in_progress"
          /\ PlaceholderConvoyId(f) \in DOMAIN convoys
    /\ \E f \in call.ready : features[f] = "failed"


\* C33: a session is set to hung only if, in the state the write is made in,
\* its status is active and its last_heartbeat is older than the hung
\* threshold.
C33_HungOnlyIfStale ==
    [][\A a \in DOMAIN sessions :
          (sessions[a].status # "hung" /\ sessions'[a].status = "hung") =>
              /\ sessions[a].status = "active"
              /\ sessions[a].last_heartbeat < ThresholdTime(now)]_vars

\* C34: a session's status changes to crashed, hung or stuck only from
\* active.
C34_FailureOnlyFromActive ==
    [][\A a \in DOMAIN sessions :
          (/\ sessions'[a].status # sessions[a].status
           /\ sessions'[a].status \in {"crashed", "hung", "stuck"}) =>
              sessions[a].status = "active"]_vars


\* The Supervisor's queue: the agent_id reject_task, MERGE_TASK and
\* AGENT_RESTART_FAILED address it by.
SupervisorId == "manager"

\* C35: every ESCALATE_TASK event in the events table has the Supervisor's
\* agent_id as its target, so all of them are in one queue.
C35_EscalateTargetsSupervisor ==
    \A r \in DOMAIN events :
        r.event_type = "ESCALATE_TASK" => r.agent_id = SupervisorId


\* C36: whenever some available convoy of the feature has all its
\* dependencies done when allocate-next is called, the call returns a convoy
\* and not none.
C36_AllocateSkipsUnmet ==
    [][(/\ call'.op = "allocate"
        /\ \E c \in ListConvoysByFeature(convoys, call'.feature, "available") :
              CheckConvoyDependenciesMet(convoys, c))
       => call'.ret # NULL]_vars


\* A ROUTE_TASK row in the CAB's queue that names task t.
RouteEventFor(ev, t) ==
    \E r \in DOMAIN ev :
        /\ r.event_type = "ROUTE_TASK"
        /\ r.agent_id = "cab"
        /\ r.payload.task_id = t

\* C37: when a developer's implement_task returns, and when the
\* resume_work of a restarted developer returns for a task that is
\* in_review, a ROUTE_TASK event naming the task has been published to the
\* CAB.
C37_SubmissionIsRouted ==
    [][\A d \in Devs :
          /\ (dev[d].pc = "publish" /\ dev'[d].pc = "idle" /\ host' = host) =>
                RouteEventFor(events', dev[d].task)
          /\ (/\ dev[d].pc = "resume" /\ dev'[d].pc = "idle" /\ host' = host
              /\ tasks[dev[d].task].status = "in_review") =>
                RouteEventFor(events', dev[d].task)]_vars


\* An UPDATE_DOCS row in the Librarian's queue that names convoy c.
DocsEventFor(ev, c) ==
    \E r \in DOMAIN ev :
        /\ r.event_type = "UPDATE_DOCS"
        /\ r.agent_id = Librarian
        /\ r.payload.convoy_id = c

\* C38: when the Refinery's merge of a task returns and every task of the
\* task's convoy is done, an UPDATE_DOCS event naming the convoy has been
\* published to the Librarian; and an UPDATE_DOCS event for a convoy is
\* first published only when every task of the convoy is done.
C38_LastMergeTriggersDocs ==
    [][/\ (/\ refinery.pc = "merged"
           /\ refinery'.pc = "idle"
           /\ ConvoyComplete(tasks', ConvoyOf[refinery.task])) =>
              DocsEventFor(events', ConvoyOf[refinery.task])
       /\ \A c \in ConvoyIds :
             (~DocsEventFor(events, c) /\ DocsEventFor(events', c)) =>
                ConvoyComplete(tasks', c)]_vars


\* C39: a task leaves todo only while its convoy is in_progress and assigned
\* to the claiming developer, and every task that is not todo has the
\* assignee of its convoy.
C39_ClaimOnlyFromOwnConvoy ==
    [][\A t \in DOMAIN tasks :
          /\ (tasks[t].status = "todo" /\ tasks'[t].status # "todo") =>
                /\ convoys[ConvoyOf[t]].status = "in_progress"
                /\ convoys[ConvoyOf[t]].assignee = tasks'[t].assignee
          /\ tasks'[t].status # "todo" =>
                tasks'[t].assignee = convoys'[ConvoyOf[t]].assignee]_vars


\* The gates of each stage, in order, as the specification lists them.
ExpectedGates(stage) ==
    CASE stage = "review" -> <<"linting", "type_checking", "complexity">>
      [] stage = "tests"  -> <<"coverage", "mutation">>
      [] stage = "merge"  -> <<"sast", "dependency_scan", "secret_detection">>
      [] OTHER            -> <<>>

\* C40: after run_all_gates(stage) the recorded results are exactly one
\* result per gate of the stage, in the stage's order, whatever was recorded
\* before; for any other stage name nothing is recorded and
\* all_gates_passed() is true.
C40_RunAllGatesRecordsStage ==
    [][call'.op = "run_all_gates" =>
          LET expected == ExpectedGates(call'.stage)
          IN  /\ Len(results') = Len(expected)
              /\ \A i \in 1..Len(expected) : results'[i].gate_type = expected[i]
              /\ call'.stage \notin {"review", "tests", "merge"} =>
                    (results' = <<>> /\ AllGatesPassed(results'))]_vars

\* run_all_gates("tests") ran on a runner that held the three results of an
\* earlier review run, and two results are recorded.
C40_Witness ==
    /\ call.op = "run_all_gates"
    /\ call.stage = "tests"
    /\ call.before = 3
    /\ Len(results) = 2
    /\ results[1].gate_type = "coverage"
    /\ results[2].gate_type = "mutation"

====
